---------------------------- MODULE Spec2Model ----------------------------
(***************************************************************************)
(* Jiva health: the biomarker extraction engine of                         *)
(* jiva-health/backend/app/services/nlp_service.py (class NLPService) and  *)
(* its copy in cloud-functions/document-processor/main.py.                 *)
(*                                                                         *)
(* Texts are sequences of one-character strings.  Measured values are      *)
(* held in tenths (13.5 is 135), so that the classifier's 0.9*min and      *)
(* 1.1*max are exact integer comparisons (9*min <= 10*v, 10*v <= 11*max).  *)
(* Confidence scores are held in hundredths (0.25 is 25).                  *)
(*                                                                         *)
(* Spec    : the orchestrator NLPService.extract_biomarkers, one request   *)
(*           at a time per request id, on whole documents.                 *)
(* SpecFn  : the pure helper functions, each applied to arguments drawn    *)
(*           from bounded sets.                                            *)
(* SpecUpload, SpecCloud, SpecUsers : the request handlers of              *)
(*           routes/upload.py, the storage-triggered cloud function and    *)
(*           the handlers of routes/health_records.py, over the Firestore  *)
(*           collections and the upload directory.                         *)
(***************************************************************************)
EXTENDS Integers, Sequences, FiniteSets, TLC

VARIABLES
    fn,      \* the function being called ("extract_biomarkers" under Spec)
    args,    \* SpecFn: its arguments
    ret,     \* SpecFn: <<>> before the call, <<value>> after it
    calls,   \* Spec: request id -> the local state of one extract_biomarkers call
    clock,   \* the wall clock read by datetime.now() / datetime.utcnow()
    nlp,     \* self.nlp: TRUE when the spaCy model was loaded by __init__
    biomarker_patterns,  \* self.biomarker_patterns: the catalog, shared by all calls
    health_records,      \* Firestore collection 'health_records': the documents, by id
    users,               \* Firestore collection 'users': uid -> profile
    uploads,             \* the files present in UPLOAD_DIR
    invocations          \* request id -> the local state of one handler invocation

appVars == <<health_records, users, uploads, invocations>>
vars == <<fn, args, ret, calls, clock, nlp, biomarker_patterns, appVars>>
fnVars == <<fn, args, ret>>
svcVars == <<calls, clock, nlp, biomarker_patterns, appVars>>

\* no web request or storage event is handled, the collections are empty
AppIdle ==
    /\ health_records = <<>>
    /\ users = <<>>
    /\ uploads = {}
    /\ invocations = <<>>

(***************************************************************************)
(* Bounds of the model.                                                    *)
(***************************************************************************)
MaxVal == 12     \* classifier arguments range over -MaxVal..MaxVal

Min(a, b) == IF a <= b THEN a ELSE b
Max(a, b) == IF a >= b THEN a ELSE b

(***************************************************************************)
(* 4.4 Status classifier.                                                  *)
(***************************************************************************)
\* A slip of the second comparison: the borderline band is not widened.
DetermineStatusOpenBand(value, min_normal, max_normal) ==
    IF min_normal <= value /\ value <= max_normal THEN "normal"
    ELSE IF 9 * min_normal < 10 * value /\ 10 * value < 11 * max_normal
         THEN "borderline"
         ELSE "abnormal"

\* NLPService._determine_status
DetermineStatus(value, min_normal, max_normal) ==
    IF min_normal <= value /\ value <= max_normal THEN "normal"
    ELSE IF 9 * min_normal <= 10 * value /\ 10 * value <= 11 * max_normal
         THEN "borderline"
         ELSE "abnormal"

\* determine_status of the cloud function
CloudDetermineStatus(value, min_normal, max_normal) ==
    IF min_normal <= value /\ value <= max_normal THEN "normal"
    ELSE IF 9 * min_normal <= 10 * value /\ 10 * value <= 11 * max_normal
         THEN "borderline"
         ELSE "abnormal"

\* A slip: "or" for "and" in the borderline test.
DetermineBpStatusOr(systolic, diastolic, normal_systolic, normal_diastolic) ==
    IF systolic <= normal_systolic /\ diastolic <= normal_diastolic THEN "normal"
    ELSE IF 10 * systolic <= 11 * normal_systolic
            \/ 10 * diastolic <= 11 * normal_diastolic
         THEN "borderline"
         ELSE "abnormal"

\* NLPService._determine_bp_status
DetermineBpStatus(systolic, diastolic, normal_systolic, normal_diastolic) ==
    IF systolic <= normal_systolic /\ diastolic <= normal_diastolic THEN "normal"
    ELSE IF 10 * systolic <= 11 * normal_systolic
            /\ 10 * diastolic <= 11 * normal_diastolic
         THEN "borderline"
         ELSE "abnormal"

(***************************************************************************)
(* Characters and the regular-expression primitives the patterns use.      *)
(* re.IGNORECASE is modelled by comparing lower-cased characters.          *)
(***************************************************************************)
Digits == <<"0", "1", "2", "3", "4", "5", "6", "7", "8", "9">>
Uppers == <<"A", "B", "C", "D", "E", "F", "G", "H", "I", "J", "K", "L", "M",
            "N", "O", "P", "Q", "R", "S", "T", "U", "V", "W", "X", "Y", "Z">>
Lowers == <<"a", "b", "c", "d", "e", "f", "g", "h", "i", "j", "k", "l", "m",
            "n", "o", "p", "q", "r", "s", "t", "u", "v", "w", "x", "y", "z">>

IsDigit(c) == c \in {"0", "1", "2", "3", "4", "5", "6", "7", "8", "9"}
DigitVal(c) == (CHOOSE k \in 1..10 : Digits[k] = c) - 1
IsSpace(c) == c \in {" ", "\n", "\t", "\r"}          \* \s

\* str.lower() on one character
ToLower == [c \in {Uppers[k] : k \in 1..26} |-> Lowers[CHOOSE k \in 1..26 : Uppers[k] = c]]
LowerChar(c) == IF c \in DOMAIN ToLower THEN ToLower[c] ELSE c

\* str.lower()
Lower(t) == [k \in 1..Len(t) |-> LowerChar(t[k])]

\* The position after the run of \s (resp. \d) characters that starts at i.
RECURSIVE SkipSpace(_, _)
SkipSpace(t, i) ==
    IF i <= Len(t) /\ IsSpace(t[i]) THEN SkipSpace(t, i + 1) ELSE i

RECURSIVE SkipDigits(_, _)
SkipDigits(t, i) ==
    IF i <= Len(t) /\ IsDigit(t[i]) THEN SkipDigits(t, i + 1) ELSE i

\* The literal lit (lower case) stands at position i of t, case ignored.
LitAt(t, i, lit) ==
    /\ i + Len(lit) - 1 <= Len(t)
    /\ \A k \in 1..Len(lit) : t[i + k - 1] = lit[k] \/ LowerChar(t[i + k - 1]) = lit[k]

\* `in`: lit occurs somewhere in t (case-sensitive substring test).
Contains(t, lit) ==
    \E i \in 1..(Len(t) - Len(lit) + 1) :
        \A k \in 1..Len(lit) : t[i + k - 1] = lit[k]

\* w1\s*w2\s*...wn at position i: the position after it, or 0.
RECURSIVE WordsAt(_, _, _)
WordsAt(t, i, words) ==
    IF words = <<>> THEN i
    ELSE IF ~LitAt(t, i, Head(words)) THEN 0
    ELSE IF Len(words) = 1 THEN i + Len(Head(words))
    ELSE WordsAt(t, SkipSpace(t, i + Len(Head(words))), Tail(words))

\* \s*:?\s* at position i: the position after it.
ColonAt(t, i) ==
    LET j == SkipSpace(t, i)
    IN  IF j <= Len(t) /\ t[j] = ":" THEN SkipSpace(t, j + 1) ELSE j

\* The decimal numeral of a natural number, and back.
RECURSIVE ToChars(_)
ToChars(n) ==
    IF n < 10 THEN <<Digits[n + 1]>>
    ELSE Append(ToChars(n \div 10), Digits[(n % 10) + 1])

RECURSIVE ToNat(_)
ToNat(ds) ==
    IF ds = <<>> THEN 0
    ELSE 10 * ToNat(SubSeq(ds, 1, Len(ds) - 1)) + DigitVal(ds[Len(ds)])

(***************************************************************************)
(* 4.3 Biomarker extractor: one catalog pattern against a text.            *)
(* A pattern is  w1\s*..wn \s*:?\s* <number part>  with the number part    *)
(*   value_unit : NUMBER \s* (u1|u2|..)        two groups                  *)
(*   value_pct  : NUMBER \s* %                 one group                   *)
(*   bp         : (\d+) / (\d+) \s* (mmhg)?    three groups                *)
(* where NUMBER is the group  \d+ \.? \d*  (digits, optional point,        *)
(* optional digits).                                                       *)
(* The character classes of adjacent pieces are disjoint, so the greedy    *)
(* match at a start position is the only one.                              *)
(***************************************************************************)
NoMatch == [ok |-> FALSE]
None == <<"None">>      \* an optional group that took no part in the match

FirstUnit(t, j, units) ==
    LET hits == {k \in 1..Len(units) : LitAt(t, j, units[k])}
    IN  IF hits = {} THEN 0 ELSE CHOOSE k \in hits : \A h \in hits : k <= h

\* re.match of pattern p at position i
MatchAt(t, i, p) ==
    LET w == WordsAt(t, i, p.words)
    IN  IF w = 0 THEN NoMatch
        ELSE
        LET j1 == ColonAt(t, w)
            d1 == SkipDigits(t, j1)
        IN  IF d1 = j1 THEN NoMatch
            ELSE IF p.form = "bp" THEN
                LET s2 == SkipDigits(t, d1 + 1)
                    j2 == SkipSpace(t, s2)
                    unit == LitAt(t, j2, p.units[1])
                IN  IF d1 > Len(t) \/ t[d1] # "/" \/ s2 = d1 + 1 THEN NoMatch
                    ELSE [ok |-> TRUE, start |-> i,
                          stop |-> IF unit THEN j2 + Len(p.units[1]) ELSE j2,
                          groups |-> <<SubSeq(t, j1, d1 - 1),
                                       SubSeq(t, d1 + 1, s2 - 1),
                                       IF unit
                                       THEN SubSeq(t, j2, j2 + Len(p.units[1]) - 1)
                                       ELSE None>>]
            ELSE
                LET d2 == IF d1 <= Len(t) /\ t[d1] = "." THEN d1 + 1 ELSE d1
                    d3 == SkipDigits(t, d2)
                    j2 == SkipSpace(t, d3)
                    u == FirstUnit(t, j2, p.units)
                    ulen == IF u = 0 THEN 0 ELSE Len(p.units[u])
                IN  IF u = 0 THEN NoMatch
                    ELSE [ok |-> TRUE, start |-> i, stop |-> j2 + ulen,
                          groups |-> IF p.form = "value_pct"
                                     THEN <<SubSeq(t, j1, d3 - 1)>>
                                     ELSE <<SubSeq(t, j1, d3 - 1),
                                            SubSeq(t, j2, j2 + ulen - 1)>>]

\* The next match of re.finditer at or after position from (leftmost start).
NextMatch(t, from, p) ==
    LET hits == {i \in from..Len(t) : MatchAt(t, i, p).ok}
        first == CHOOSE i \in hits : \A h \in hits : i <= h
    IN  IF hits = {} THEN NoMatch ELSE MatchAt(t, first, p)

\* float(s) succeeds: digits, with an optional point among them.
FloatOk(s) ==
    /\ \E k \in 1..Len(s) : IsDigit(s[k])
    /\ \A k \in 1..Len(s) : IsDigit(s[k]) \/ s[k] = "."
    /\ Cardinality({k \in 1..Len(s) : s[k] = "."}) <= 1

\* float(s), in tenths.  The documents of this model give at most one
\* fractional digit; further digits would be cut.
ParseFloat(s) ==
    LET dots == {k \in 1..Len(s) : s[k] = "."}
        dot == IF dots = {} THEN Len(s) + 1 ELSE CHOOSE k \in dots : TRUE
    IN  10 * ToNat(SubSeq(s, 1, dot - 1))
        + (IF dot + 1 <= Len(s) THEN DigitVal(s[dot + 1]) ELSE 0)

Infinity == 100000000      \* float('inf'): above every value of the model

\* dict.get(key, default)
ConfigGet(config, key, default) ==
    IF key \in DOMAIN config THEN config[key] ELSE default

(***************************************************************************)
(* 4.2 Biomarker catalog: NLPService._load_biomarker_patterns, in the      *)
(* order of the dict.  Bounds are in tenths.                               *)
(***************************************************************************)
BiomarkerPatterns == <<
    [name |-> "hemoglobin",
     patterns |-> <<
            [words |-> <<<<"h", "b">>>>, form |-> "value_unit", units |-> <<<<"g", "/", "d", "l">>, <<"g", "m", "/", "d", "l">>, <<"g", "%">>>>],
            [words |-> <<<<"h", "e", "m", "o", "g", "l", "o", "b", "i", "n">>>>, form |-> "value_unit", units |-> <<<<"g", "/", "d", "l">>, <<"g", "m", "/", "d", "l">>, <<"g", "%">>>>],
            [words |-> <<<<"h", "a", "e", "m", "o", "g", "l", "o", "b", "i", "n">>>>, form |-> "value_unit", units |-> <<<<"g", "/", "d", "l">>, <<"g", "m", "/", "d", "l">>, <<"g", "%">>>>]>>,
     unit |-> <<"g", "/", "d", "L">>, normal_range |-> "12.0-16.0",
     normal_min |-> 120, normal_max |-> 160],
    [name |-> "blood_sugar",
     patterns |-> <<
            [words |-> <<<<"g", "l", "u", "c", "o", "s", "e">>>>, form |-> "value_unit", units |-> <<<<"m", "g", "/", "d", "l">>, <<"m", "m", "o", "l", "/", "l">>>>],
            [words |-> <<<<"b", "l", "o", "o", "d">>, <<"s", "u", "g", "a", "r">>>>, form |-> "value_unit", units |-> <<<<"m", "g", "/", "d", "l">>, <<"m", "m", "o", "l", "/", "l">>>>],
            [words |-> <<<<"f", "a", "s", "t", "i", "n", "g">>, <<"g", "l", "u", "c", "o", "s", "e">>>>, form |-> "value_unit", units |-> <<<<"m", "g", "/", "d", "l">>, <<"m", "m", "o", "l", "/", "l">>>>],
            [words |-> <<<<"r", "a", "n", "d", "o", "m">>, <<"g", "l", "u", "c", "o", "s", "e">>>>, form |-> "value_unit", units |-> <<<<"m", "g", "/", "d", "l">>, <<"m", "m", "o", "l", "/", "l">>>>]>>,
     unit |-> <<"m", "g", "/", "d", "L">>, normal_range |-> "70-100",
     normal_min |-> 700, normal_max |-> 1000],
    [name |-> "cholesterol",
     patterns |-> <<
            [words |-> <<<<"t", "o", "t", "a", "l">>, <<"c", "h", "o", "l", "e", "s", "t", "e", "r", "o", "l">>>>, form |-> "value_unit", units |-> <<<<"m", "g", "/", "d", "l">>>>],
            [words |-> <<<<"c", "h", "o", "l", "e", "s", "t", "e", "r", "o", "l">>>>, form |-> "value_unit", units |-> <<<<"m", "g", "/", "d", "l">>>>],
            [words |-> <<<<"c", "h", "o", "l">>>>, form |-> "value_unit", units |-> <<<<"m", "g", "/", "d", "l">>>>]>>,
     unit |-> <<"m", "g", "/", "d", "L">>, normal_range |-> "<200",
     normal_min |-> 0, normal_max |-> 2000],
    [name |-> "ldl_cholesterol",
     patterns |-> <<
            [words |-> <<<<"l", "d", "l">>, <<"c", "h", "o", "l", "e", "s", "t", "e", "r", "o", "l">>>>, form |-> "value_unit", units |-> <<<<"m", "g", "/", "d", "l">>>>],
            [words |-> <<<<"l", "d", "l">>>>, form |-> "value_unit", units |-> <<<<"m", "g", "/", "d", "l">>>>],
            [words |-> <<<<"l", "o", "w">>, <<"d", "e", "n", "s", "i", "t", "y">>, <<"l", "i", "p", "o", "p", "r", "o", "t", "e", "i", "n">>>>, form |-> "value_unit", units |-> <<<<"m", "g", "/", "d", "l">>>>]>>,
     unit |-> <<"m", "g", "/", "d", "L">>, normal_range |-> "<100",
     normal_min |-> 0, normal_max |-> 1000],
    [name |-> "hdl_cholesterol",
     patterns |-> <<
            [words |-> <<<<"h", "d", "l">>, <<"c", "h", "o", "l", "e", "s", "t", "e", "r", "o", "l">>>>, form |-> "value_unit", units |-> <<<<"m", "g", "/", "d", "l">>>>],
            [words |-> <<<<"h", "d", "l">>>>, form |-> "value_unit", units |-> <<<<"m", "g", "/", "d", "l">>>>],
            [words |-> <<<<"h", "i", "g", "h">>, <<"d", "e", "n", "s", "i", "t", "y">>, <<"l", "i", "p", "o", "p", "r", "o", "t", "e", "i", "n">>>>, form |-> "value_unit", units |-> <<<<"m", "g", "/", "d", "l">>>>]>>,
     unit |-> <<"m", "g", "/", "d", "L">>, normal_range |-> ">40",
     normal_min |-> 400, normal_max |-> 9990],
    [name |-> "triglycerides",
     patterns |-> <<
            [words |-> <<<<"t", "r", "i", "g", "l", "y", "c", "e", "r", "i", "d", "e", "s">>>>, form |-> "value_unit", units |-> <<<<"m", "g", "/", "d", "l">>>>],
            [words |-> <<<<"t", "g">>>>, form |-> "value_unit", units |-> <<<<"m", "g", "/", "d", "l">>>>],
            [words |-> <<<<"t", "r", "i", "g", "s">>>>, form |-> "value_unit", units |-> <<<<"m", "g", "/", "d", "l">>>>]>>,
     unit |-> <<"m", "g", "/", "d", "L">>, normal_range |-> "<150",
     normal_min |-> 0, normal_max |-> 1500],
    [name |-> "wbc",
     patterns |-> <<
            [words |-> <<<<"w", "b", "c">>>>, form |-> "value_unit", units |-> <<<<"/", "mu", "l">>, <<"/", "u", "l">>, <<"c", "e", "l", "l", "s", "/", "mu", "l">>>>],
            [words |-> <<<<"w", "h", "i", "t", "e">>, <<"b", "l", "o", "o", "d">>, <<"c", "e", "l", "l", "s">>>>, form |-> "value_unit", units |-> <<<<"/", "mu", "l">>, <<"/", "u", "l">>, <<"c", "e", "l", "l", "s", "/", "mu", "l">>>>],
            [words |-> <<<<"l", "e", "u", "k", "o", "c", "y", "t", "e", "s">>>>, form |-> "value_unit", units |-> <<<<"/", "mu", "l">>, <<"/", "u", "l">>, <<"c", "e", "l", "l", "s", "/", "mu", "l">>>>]>>,
     unit |-> <<"/", "mu", "L">>, normal_range |-> "4000-11000",
     normal_min |-> 40000, normal_max |-> 110000],
    [name |-> "platelets",
     patterns |-> <<
            [words |-> <<<<"p", "l", "a", "t", "e", "l", "e", "t", "s">>>>, form |-> "value_unit", units |-> <<<<"/", "mu", "l">>, <<"/", "u", "l">>, <<"c", "e", "l", "l", "s", "/", "mu", "l">>>>],
            [words |-> <<<<"p", "l", "t">>>>, form |-> "value_unit", units |-> <<<<"/", "mu", "l">>, <<"/", "u", "l">>, <<"c", "e", "l", "l", "s", "/", "mu", "l">>>>],
            [words |-> <<<<"t", "h", "r", "o", "m", "b", "o", "c", "y", "t", "e", "s">>>>, form |-> "value_unit", units |-> <<<<"/", "mu", "l">>, <<"/", "u", "l">>, <<"c", "e", "l", "l", "s", "/", "mu", "l">>>>]>>,
     unit |-> <<"/", "mu", "L">>, normal_range |-> "150000-450000",
     normal_min |-> 1500000, normal_max |-> 4500000],
    [name |-> "hematocrit",
     patterns |-> <<
            [words |-> <<<<"h", "e", "m", "a", "t", "o", "c", "r", "i", "t">>>>, form |-> "value_pct", units |-> <<<<"%">>>>],
            [words |-> <<<<"h", "c", "t">>>>, form |-> "value_pct", units |-> <<<<"%">>>>],
            [words |-> <<<<"p", "a", "c", "k", "e", "d">>, <<"c", "e", "l", "l">>, <<"v", "o", "l", "u", "m", "e">>>>, form |-> "value_pct", units |-> <<<<"%">>>>]>>,
     unit |-> <<"%">>, normal_range |-> "36-46",
     normal_min |-> 360, normal_max |-> 460],
    [name |-> "alt",
     patterns |-> <<
            [words |-> <<<<"a", "l", "t">>>>, form |-> "value_unit", units |-> <<<<"u", "/", "l">>, <<"i", "u", "/", "l">>>>],
            [words |-> <<<<"a", "l", "a", "n", "i", "n", "e">>, <<"a", "m", "i", "n", "o", "t", "r", "a", "n", "s", "f", "e", "r", "a", "s", "e">>>>, form |-> "value_unit", units |-> <<<<"u", "/", "l">>, <<"i", "u", "/", "l">>>>],
            [words |-> <<<<"s", "g", "p", "t">>>>, form |-> "value_unit", units |-> <<<<"u", "/", "l">>, <<"i", "u", "/", "l">>>>]>>,
     unit |-> <<"U", "/", "L">>, normal_range |-> "7-45",
     normal_min |-> 70, normal_max |-> 450],
    [name |-> "ast",
     patterns |-> <<
            [words |-> <<<<"a", "s", "t">>>>, form |-> "value_unit", units |-> <<<<"u", "/", "l">>, <<"i", "u", "/", "l">>>>],
            [words |-> <<<<"a", "s", "p", "a", "r", "t", "a", "t", "e">>, <<"a", "m", "i", "n", "o", "t", "r", "a", "n", "s", "f", "e", "r", "a", "s", "e">>>>, form |-> "value_unit", units |-> <<<<"u", "/", "l">>, <<"i", "u", "/", "l">>>>],
            [words |-> <<<<"s", "g", "o", "t">>>>, form |-> "value_unit", units |-> <<<<"u", "/", "l">>, <<"i", "u", "/", "l">>>>]>>,
     unit |-> <<"U", "/", "L">>, normal_range |-> "8-40",
     normal_min |-> 80, normal_max |-> 400],
    [name |-> "bilirubin_total",
     patterns |-> <<
            [words |-> <<<<"t", "o", "t", "a", "l">>, <<"b", "i", "l", "i", "r", "u", "b", "i", "n">>>>, form |-> "value_unit", units |-> <<<<"m", "g", "/", "d", "l">>>>],
            [words |-> <<<<"b", "i", "l", "i", "r", "u", "b", "i", "n">>, <<"t", "o", "t", "a", "l">>>>, form |-> "value_unit", units |-> <<<<"m", "g", "/", "d", "l">>>>],
            [words |-> <<<<"b", "i", "l">>, <<"t", "o", "t", "a", "l">>>>, form |-> "value_unit", units |-> <<<<"m", "g", "/", "d", "l">>>>]>>,
     unit |-> <<"m", "g", "/", "d", "L">>, normal_range |-> "0.3-1.2",
     normal_min |-> 3, normal_max |-> 12],
    [name |-> "albumin",
     patterns |-> <<
            [words |-> <<<<"a", "l", "b", "u", "m", "i", "n">>>>, form |-> "value_unit", units |-> <<<<"g", "/", "d", "l">>>>],
            [words |-> <<<<"a", "l", "b">>>>, form |-> "value_unit", units |-> <<<<"g", "/", "d", "l">>>>]>>,
     unit |-> <<"g", "/", "d", "L">>, normal_range |-> "3.5-5.0",
     normal_min |-> 35, normal_max |-> 50],
    [name |-> "blood_pressure",
     patterns |-> <<
            [words |-> <<<<"b", "p">>>>, form |-> "bp", units |-> <<<<"m", "m", "h", "g">>>>],
            [words |-> <<<<"b", "l", "o", "o", "d">>, <<"p", "r", "e", "s", "s", "u", "r", "e">>>>, form |-> "bp", units |-> <<<<"m", "m", "h", "g">>>>]>>,
     unit |-> <<"m", "m", "H", "g">>, normal_range |-> "120/80",
     normal_systolic_max |-> 1200, normal_diastolic_max |-> 800]>>

(***************************************************************************)
(* NLPService._extract_biomarker_values.                                   *)
(***************************************************************************)
\* The try block of one match: float() of the value groups succeeds.
ParsesOk(biomarker_name, m) ==
    IF biomarker_name = "blood_pressure"
    THEN FloatOk(m.groups[1]) /\ FloatOk(m.groups[2])
    ELSE FloatOk(m.groups[1])

\* The captured unit ignored: every reading carries the catalog's unit.
ReadingCanonicalUnit(biomarker_name, config, m) ==
    IF biomarker_name = "blood_pressure"
    THEN LET systolic == ParseFloat(m.groups[1])
             diastolic == ParseFloat(m.groups[2])
         IN  [systolic |-> systolic, diastolic |-> diastolic,
              unit |-> config.unit, range |-> config.normal_range,
              status |-> DetermineBpStatus(systolic, diastolic,
                                           config.normal_systolic_max,
                                           config.normal_diastolic_max)]
    ELSE LET value == ParseFloat(m.groups[1])
         IN  [value |-> value,
              unit |-> config.unit,
              range |-> config.normal_range,
              status |-> DetermineStatus(value,
                                         ConfigGet(config, "normal_min", 0),
                                         ConfigGet(config, "normal_max", Infinity))]

\* The composite branch left out: blood pressure stored as a plain value.
ReadingPlainOnly(biomarker_name, config, m) ==
    LET value == ParseFloat(m.groups[1])
    IN  [value |-> value,
         unit |-> IF biomarker_name # "blood_pressure" /\ Len(m.groups) > 1
                  THEN m.groups[2] ELSE config.unit,
         range |-> config.normal_range,
         status |-> DetermineStatus(value,
                                    ConfigGet(config, "normal_min", 0),
                                    ConfigGet(config, "normal_max", Infinity))]

\* The reading stored for one match (lines 324-358).
Reading(biomarker_name, config, m) ==
    IF biomarker_name = "blood_pressure"
    THEN LET systolic == ParseFloat(m.groups[1])
             diastolic == ParseFloat(m.groups[2])
         IN  [systolic |-> systolic, diastolic |-> diastolic,
              unit |-> config.unit, range |-> config.normal_range,
              status |-> DetermineBpStatus(systolic, diastolic,
                                           config.normal_systolic_max,
                                           config.normal_diastolic_max)]
    ELSE LET value == ParseFloat(m.groups[1])
         IN  [value |-> value,
              unit |-> IF Len(m.groups) > 1 THEN m.groups[2] ELSE config.unit,
              range |-> config.normal_range,
              status |-> DetermineStatus(value,
                                         ConfigGet(config, "normal_min", 0),
                                         ConfigGet(config, "normal_max", Infinity))]

\* The rightmost match taken in place of the leftmost.
LastParsed(t, from, biomarker_name, p) ==
    LET hits == {i \in from..Len(t) : MatchAt(t, i, p).ok}
    IN  IF hits = {} THEN NoMatch
        ELSE MatchAt(t, CHOOSE i \in hits : \A h \in hits : h <= i, p)

\* for match in matches: the first match whose groups parse ("break"); a
\* match that does not parse is skipped ("continue").
RECURSIVE FirstParsed(_, _, _, _)
FirstParsed(t, from, biomarker_name, p) ==
    LET m == NextMatch(t, from, p)
    IN  IF ~m.ok THEN NoMatch
        ELSE IF ParsesOk(biomarker_name, m) THEN m
        ELSE FirstParsed(t, m.stop, biomarker_name, p)

\* for pattern in config['patterns'], from pattern k on: every pattern that
\* has a parsed match assigns biomarkers[biomarker_name]; the break leaves
\* only the loop over the matches of that pattern.
RECURSIVE PatternsLoop(_, _, _, _)
PatternsLoop(t, config, k, biomarkers) ==
    IF k > Len(config.patterns) THEN biomarkers
    ELSE LET m == FirstParsed(t, 1, config.name, config.patterns[k])
         IN  PatternsLoop(t, config, k + 1,
                 IF m.ok
                 THEN (config.name :> Reading(config.name, config, m)) @@ biomarkers
                 ELSE biomarkers)

\* for biomarker_name, config in self.biomarker_patterns.items(), from entry e on
RECURSIVE EntriesLoop(_, _, _, _)
EntriesLoop(t, catalog, e, biomarkers) ==
    IF e > Len(catalog) THEN biomarkers
    ELSE EntriesLoop(t, catalog, e + 1, PatternsLoop(t, catalog[e], 1, biomarkers))

ExtractBiomarkerValues(t) == EntriesLoop(t, BiomarkerPatterns, 1, <<>>)

(***************************************************************************)
(* extract_biomarkers of the cloud function: BIOMARKER_PATTERNS in the     *)
(* order of the dict, bounds in tenths, and the loops of lines 253-273.    *)
(***************************************************************************)
CloudBiomarkerPatterns == <<
    [name |-> "hemoglobin",
     patterns |-> <<[words |-> <<<<"h", "b">>>>, form |-> "value_unit", units |-> <<<<"g", "/", "d", "l">>, <<"g", "m", "/", "d", "l">>>>]>>,
     unit |-> <<"g", "/", "d", "L">>, range |-> "12.0-16.0", min |-> 120, max |-> 160],
    [name |-> "blood_sugar",
     patterns |-> <<[words |-> <<<<"g", "l", "u", "c", "o", "s", "e">>>>, form |-> "value_unit", units |-> <<<<"m", "g", "/", "d", "l">>>>]>>,
     unit |-> <<"m", "g", "/", "d", "L">>, range |-> "70-100", min |-> 700, max |-> 1000],
    [name |-> "cholesterol",
     patterns |-> <<[words |-> <<<<"c", "h", "o", "l", "e", "s", "t", "e", "r", "o", "l">>>>, form |-> "value_unit", units |-> <<<<"m", "g", "/", "d", "l">>>>]>>,
     unit |-> <<"m", "g", "/", "d", "L">>, range |-> "<200", min |-> 0, max |-> 2000],
    [name |-> "ldl",
     patterns |-> <<[words |-> <<<<"l", "d", "l">>>>, form |-> "value_unit", units |-> <<<<"m", "g", "/", "d", "l">>>>]>>,
     unit |-> <<"m", "g", "/", "d", "L">>, range |-> "<100", min |-> 0, max |-> 1000],
    [name |-> "hdl",
     patterns |-> <<[words |-> <<<<"h", "d", "l">>>>, form |-> "value_unit", units |-> <<<<"m", "g", "/", "d", "l">>>>]>>,
     unit |-> <<"m", "g", "/", "d", "L">>, range |-> ">40", min |-> 400, max |-> 9990],
    [name |-> "triglycerides",
     patterns |-> <<[words |-> <<<<"t", "r", "i", "g", "l", "y", "c", "e", "r", "i", "d", "e", "s">>>>, form |-> "value_unit", units |-> <<<<"m", "g", "/", "d", "l">>>>]>>,
     unit |-> <<"m", "g", "/", "d", "L">>, range |-> "<150", min |-> 0, max |-> 1500]>>

\* the reading stored for one match (lines 259-269)
CloudReading(config, m) ==
    LET value == ParseFloat(m.groups[1])
    IN  [value |-> value,
         unit |-> IF Len(m.groups) > 1 THEN m.groups[2] ELSE config.unit,
         range |-> config.range,
         status |-> CloudDetermineStatus(value, config.min, config.max)]

\* biomarkers[biomarker_name] = {...} for the parsed match m of a pattern,
\* if there is one (lines 257-273)
CloudStore(config, m, biomarkers) ==
    IF m.ok
    THEN (config.name :> CloudReading(config, m)) @@ biomarkers
    ELSE biomarkers

\* for pattern in config['patterns'], from pattern k on
RECURSIVE CloudPatternsLoop(_, _, _, _)
CloudPatternsLoop(t, config, k, biomarkers) ==
    IF k > Len(config.patterns) THEN biomarkers
    ELSE CloudPatternsLoop(t, config, k + 1,
             CloudStore(config, FirstParsed(t, 1, config.name, config.patterns[k]), biomarkers))

\* for biomarker_name, config in BIOMARKER_PATTERNS.items(), from entry e on
RECURSIVE CloudEntriesLoop(_, _, _)
CloudEntriesLoop(t, e, biomarkers) ==
    IF e > Len(CloudBiomarkerPatterns) THEN biomarkers
    ELSE CloudEntriesLoop(t, e + 1,
                          CloudPatternsLoop(t, CloudBiomarkerPatterns[e], 1, biomarkers))

\* config['normal_systolic_max'] or config['normal_diastolic_max'] (lines
\* 332-333) raises KeyError: the blood pressure entry lacks the key and one
\* of its patterns has a match that parses.  No other bound is subscripted:
\* normal_min and normal_max are read with config.get and a default.
RaisesKeyError(t, catalog) ==
    \E e \in 1..Len(catalog) :
        /\ catalog[e].name = "blood_pressure"
        /\ ~({"normal_systolic_max", "normal_diastolic_max"} \subseteq DOMAIN catalog[e])
        /\ \E k \in 1..Len(catalog[e].patterns) :
              FirstParsed(t, 1, catalog[e].name, catalog[e].patterns[k]).ok

(***************************************************************************)
(* 4.1 Text normalizer: NLPService._clean_text.                            *)
(***************************************************************************)
\* re.sub(r'\s+', ' ', text), from position i on
\* The concatenation of piece[lo], .., piece[hi], by halves.
RECURSIVE Flatten(_, _, _)
Flatten(piece, lo, hi) ==
    IF lo > hi THEN <<>>
    ELSE IF lo = hi THEN piece[lo]
    ELSE LET mid == (lo + hi) \div 2
         IN  Flatten(piece, lo, mid) \o Flatten(piece, mid + 1, hi)

\* re.sub(r'\s+', ' ', text): the first character of a run of white space
\* gives one space, the others give nothing.
CollapseSpace(t) ==
    Flatten([i \in 1..Len(t) |->
                IF ~IsSpace(t[i]) THEN <<t[i]>>
                ELSE IF i > 1 /\ IsSpace(t[i - 1]) THEN <<>>
                ELSE <<" ">>],
            1, Len(t))

\* old stands at position i of t (case-sensitive)
ExactAt(t, i, old) ==
    /\ i + Len(old) - 1 <= Len(t)
    /\ \A k \in 1..Len(old) : t[i + k - 1] = old[k]

\* str.replace(old, new).  No key of the replacements dict overlaps a
\* shifted copy of itself, so the occurrences of old never overlap and each
\* one is replaced: the position where one starts gives new, the positions
\* it covers give nothing.
Replace(t, old, new) ==
    Flatten([i \in 1..Len(t) |->
                IF ExactAt(t, i, old) THEN new
                ELSE IF \E k \in 1..(Len(old) - 1) : i > k /\ ExactAt(t, i - k, old) THEN <<>>
                ELSE <<t[i]>>],
            1, Len(t))

\* the replacements dict of _clean_text, in its order
Replacements == <<
    <<<<"o">>, <<"0">>>>,
    <<<<"i">>, <<"1">>>>,
    <<<<"l">>, <<"1">>>>,
    <<<<"m", "g", "%">>, <<"m", "g", "/", "d", "l">>>>,
    <<<<"g", "m", "%">>, <<"g", "/", "d", "l">>>>,
    <<<<"g", "m", "/", "d", "l">>, <<"g", "/", "d", "l">>>>>>

RECURSIVE ReplaceAll(_, _)
ReplaceAll(t, k) ==
    IF k > Len(Replacements) THEN t
    ELSE ReplaceAll(Replace(t, Replacements[k][1], Replacements[k][2]), k + 1)

CleanText(text) == ReplaceAll(CollapseSpace(Lower(text)), 1)

(***************************************************************************)
(* 4.5 Metadata extractors.                                                *)
(***************************************************************************)
\* NLPService._load_test_type_patterns: each pattern is w1\s*w2..
TestTypePatterns == <<
    [test_type |-> "Blood Test",
     patterns |-> <<<<<<"c", "o", "m", "p", "l", "e", "t", "e">>, <<"b", "l", "o", "o", "d">>, <<"c", "o", "u", "n", "t">>>>,
                    <<<<"c", "b", "c">>>>,
                    <<<<"b", "l", "o", "o", "d">>, <<"t", "e", "s", "t">>>>,
                    <<<<"h", "e", "m", "a", "t", "o", "l", "o", "g", "y">>>>,
                    <<<<"h", "e", "m", "o", "g", "r", "a", "m">>>>>>],
    [test_type |-> "Lipid Panel",
     patterns |-> <<<<<<"l", "i", "p", "i", "d">>, <<"p", "r", "o", "f", "i", "l", "e">>>>,
                    <<<<"l", "i", "p", "i", "d">>, <<"p", "a", "n", "e", "l">>>>,
                    <<<<"c", "h", "o", "l", "e", "s", "t", "e", "r", "o", "l">>, <<"t", "e", "s", "t">>>>,
                    <<<<"l", "i", "p", "o", "g", "r", "a", "m">>>>>>],
    [test_type |-> "Liver Function Test",
     patterns |-> <<<<<<"l", "i", "v", "e", "r">>, <<"f", "u", "n", "c", "t", "i", "o", "n">>, <<"t", "e", "s", "t">>>>,
                    <<<<"l", "f", "t">>>>,
                    <<<<"h", "e", "p", "a", "t", "i", "c">>, <<"p", "a", "n", "e", "l">>>>,
                    <<<<"l", "i", "v", "e", "r">>, <<"p", "r", "o", "f", "i", "l", "e">>>>>>],
    [test_type |-> "Kidney Function Test",
     patterns |-> <<<<<<"k", "i", "d", "n", "e", "y">>, <<"f", "u", "n", "c", "t", "i", "o", "n">>, <<"t", "e", "s", "t">>>>,
                    <<<<"k", "f", "t">>>>,
                    <<<<"r", "e", "n", "a", "l">>, <<"f", "u", "n", "c", "t", "i", "o", "n">>>>,
                    <<<<"c", "r", "e", "a", "t", "i", "n", "i", "n", "e">>>>,
                    <<<<"u", "r", "e", "a">>>>>>],
    [test_type |-> "Thyroid Function Test",
     patterns |-> <<<<<<"t", "h", "y", "r", "o", "i", "d">>, <<"f", "u", "n", "c", "t", "i", "o", "n">>, <<"t", "e", "s", "t">>>>,
                    <<<<"t", "f", "t">>>>,
                    <<<<"t", "h", "y", "r", "o", "i", "d">>, <<"p", "r", "o", "f", "i", "l", "e">>>>,
                    <<<<"t", "s", "h">>>>,
                    <<<<"t", "3">>>>,
                    <<<<"t", "4">>>>>>]>>

\* re.search of w1\s*w2.. in t
SearchWords(t, ws) == \E i \in 1..Len(t) : WordsAt(t, i, ws) # 0

LipidTerms == {<<"c", "h", "o", "l", "e", "s", "t", "e", "r", "o", "l">>, <<"l", "d", "l">>, <<"h", "d", "l">>, <<"t", "r", "i", "g", "l", "y", "c", "e", "r", "i", "d", "e", "s">>}
LiverTerms == {<<"a", "l", "t">>, <<"a", "s", "t">>, <<"b", "i", "l", "i", "r", "u", "b", "i", "n">>, <<"a", "l", "b", "u", "m", "i", "n">>}
BloodTerms == {<<"h", "e", "m", "o", "g", "l", "o", "b", "i", "n">>, <<"w", "b", "c">>, <<"p", "l", "a", "t", "e", "l", "e", "t", "s">>, <<"h", "e", "m", "a", "t", "o", "c", "r", "i", "t">>}

\* NLPService._extract_test_type
ExtractTestType(text) ==
    LET hits == {g \in 1..Len(TestTypePatterns) :
                    \E k \in 1..Len(TestTypePatterns[g].patterns) :
                        SearchWords(text, TestTypePatterns[g].patterns[k])}
        text_lower == Lower(text)
    IN  IF hits # {}
        THEN TestTypePatterns[CHOOSE g \in hits : \A h \in hits : g <= h].test_type
        ELSE IF \E term \in LipidTerms : Contains(text_lower, term) THEN "Lipid Panel"
        ELSE IF \E term \in LiverTerms : Contains(text_lower, term)
             THEN "Liver Function Test"
        ELSE IF \E term \in BloodTerms : Contains(text_lower, term)
             THEN "Complete Blood Count"
        ELSE "Medical Test"

\* NLPService._load_facility_patterns.  Patterns 1 and 2 are
\*   ( .*? (?:k1|k2|..) .*? ) (?:\n|$)      "line": the whole line of a keyword
\* and patterns 3 and 4 are
\*   w1\s*w2 \s*:?\s* ( .*? ) (?:\n|$)      "prefix": the rest of the line
FacilityPatterns == <<
    [kind |-> "line",
     keys |-> <<<<"h", "o", "s", "p", "i", "t", "a", "l">>,
             <<"c", "l", "i", "n", "i", "c">>,
             <<"m", "e", "d", "i", "c", "a", "l", " ", "c", "e", "n", "t", "e", "r">>,
             <<"d", "i", "a", "g", "n", "o", "s", "t", "i", "c", "s">>,
             <<"l", "a", "b">>,
             <<"l", "a", "b", "o", "r", "a", "t", "o", "r", "y">>,
             <<"h", "e", "a", "l", "t", "h", "c", "a", "r", "e">>,
             <<"p", "a", "t", "h", "o", "l", "o", "g", "y">>>>],
    [kind |-> "line",
     keys |-> <<<<"d", "r", ".">>,
             <<"d", "o", "c", "t", "o", "r">>,
             <<"p", "h", "y", "s", "i", "c", "i", "a", "n">>>>],
    [kind |-> "prefix", keys |-> <<<<"r", "e", "p", "o", "r", "t">>, <<"f", "r", "o", "m">>>>],
    [kind |-> "prefix", keys |-> <<<<"i", "s", "s", "u", "e", "d">>, <<"b", "y">>>>]>>

MedicalFacility == <<"M", "e", "d", "i", "c", "a", "l", " ", "F", "a", "c", "i", "l", "i", "t", "y">>
UnknownFacility == <<"U", "n", "k", "n", "o", "w", "n", " ", "F", "a", "c", "i", "l", "i", "t", "y">>

\* The start of the line of position i, and the position of the "\n" (or the
\* end of the text) that closes the line of position i.
RECURSIVE LineStart(_, _)
LineStart(t, i) == IF i <= 1 \/ t[i - 1] = "\n" THEN i ELSE LineStart(t, i - 1)

RECURSIVE LineEnd(_, _)
LineEnd(t, i) == IF i > Len(t) \/ t[i] = "\n" THEN i ELSE LineEnd(t, i + 1)

\* str.strip()
RECURSIVE StripLeft(_)
StripLeft(x) == IF x # <<>> /\ IsSpace(Head(x)) THEN StripLeft(Tail(x)) ELSE x

RECURSIVE StripRight(_)
StripRight(x) ==
    IF x # <<>> /\ IsSpace(x[Len(x)]) THEN StripRight(SubSeq(x, 1, Len(x) - 1)) ELSE x

Strip(x) == StripRight(StripLeft(x))

\* re.search(pattern, text, IGNORECASE | MULTILINE).group(1), as <<group>>, or
\* <<>> when the pattern has no match.  "." does not match "\n", so the lazy
\* prefix of a line pattern starts at the start of the first line that holds
\* a keyword, and either lazy suffix runs to the end of its line.
FacilityGroup(t, p) ==
    IF p.kind = "line"
    THEN LET hits == {i \in 1..Len(t) :
                        \E k \in 1..Len(p.keys) : LitAt(t, i, p.keys[k])}
             first == CHOOSE i \in hits : \A h \in hits : i <= h
         IN  IF hits = {} THEN <<>>
             ELSE <<SubSeq(t, LineStart(t, first), LineEnd(t, first) - 1)>>
    ELSE LET hits == {i \in 1..Len(t) : WordsAt(t, i, p.keys) # 0}
             first == CHOOSE i \in hits : \A h \in hits : i <= h
             from == ColonAt(t, WordsAt(t, first, p.keys))
         IN  IF hits = {} THEN <<>>
             ELSE <<SubSeq(t, from, LineEnd(t, from) - 1)>>

\* A slip of the length test: both ends of the range accepted.
PlausibleFacilityInclusive(facility) == Len(facility) >= 5 /\ Len(facility) <= 100

\* len(facility) > 5 and len(facility) < 100
PlausibleFacility(facility) == Len(facility) > 5 /\ Len(facility) < 100

\* for pattern in self.facility_patterns, from pattern k on
RECURSIVE FacilityLoop(_, _, _)
FacilityLoop(t, patterns, k) ==
    IF k > Len(patterns) THEN MedicalFacility
    ELSE LET g == FacilityGroup(t, patterns[k])
         IN  IF g # <<>> /\ PlausibleFacility(Strip(g[1])) THEN Strip(g[1])
             ELSE FacilityLoop(t, patterns, k + 1)

\* NLPService._extract_facility
ExtractFacility(text) == FacilityLoop(text, FacilityPatterns, 1)

\* extract_facility of the cloud function: its one pattern is a line pattern
CloudFacilityPatterns == <<
    [kind |-> "line",
     keys |-> <<<<"h", "o", "s", "p", "i", "t", "a", "l">>,
             <<"c", "l", "i", "n", "i", "c">>,
             <<"d", "i", "a", "g", "n", "o", "s", "t", "i", "c", "s">>,
             <<"l", "a", "b">>,
             <<"l", "a", "b", "o", "r", "a", "t", "o", "r", "y">>>>]>>

CloudExtractFacility(text) == FacilityLoop(text, CloudFacilityPatterns, 1)

(***************************************************************************)
(* Dates: NLPService._load_date_patterns, _extract_date, _parse_date.      *)
(* NUMDATE is  \d{1,2} [-/] \d{1,2} [-/] \d{2,4} ;  patterns 1 to 3 are    *)
(* w1\s*w2 \s*:?\s* (NUMDATE), pattern 4 is (NUMDATE), patterns 5 and 6    *)
(* are ( \d{1,2} \s+ MONTH \s+ \d{2,4} ).                                  *)
(***************************************************************************)
DatePatterns == <<
    [kind |-> "numeric", prefix |-> <<<<"d", "a", "t", "e">>>>],
    [kind |-> "numeric", prefix |-> <<<<"t", "e", "s", "t">>, <<"d", "a", "t", "e">>>>],
    [kind |-> "numeric", prefix |-> <<<<"c", "o", "l", "l", "e", "c", "t", "e", "d">>, <<"o", "n">>>>],
    [kind |-> "bare"],
    [kind |-> "month",
     months |-> <<<<"j", "a", "n">>,
                <<"f", "e", "b">>,
                <<"m", "a", "r">>,
                <<"a", "p", "r">>,
                <<"m", "a", "y">>,
                <<"j", "u", "n">>,
                <<"j", "u", "l">>,
                <<"a", "u", "g">>,
                <<"s", "e", "p">>,
                <<"o", "c", "t">>,
                <<"n", "o", "v">>,
                <<"d", "e", "c">>>>],
    [kind |-> "month",
     months |-> <<<<"j", "a", "n", "u", "a", "r", "y">>,
                <<"f", "e", "b", "r", "u", "a", "r", "y">>,
                <<"m", "a", "r", "c", "h">>,
                <<"a", "p", "r", "i", "l">>,
                <<"m", "a", "y">>,
                <<"j", "u", "n", "e">>,
                <<"j", "u", "l", "y">>,
                <<"a", "u", "g", "u", "s", "t">>,
                <<"s", "e", "p", "t", "e", "m", "b", "e", "r">>,
                <<"o", "c", "t", "o", "b", "e", "r">>,
                <<"n", "o", "v", "e", "m", "b", "e", "r">>,
                <<"d", "e", "c", "e", "m", "b", "e", "r">>>>]>>

IsDateSep(t, i) == i <= Len(t) /\ t[i] \in {"-", "/"}

\* NUMDATE at position j: the position after it, or 0.  A run of three or
\* more digits cannot begin a one-or-two digit field that a separator follows.
NumericDateEnd(t, j) ==
    LET d1 == SkipDigits(t, j)
        d2 == SkipDigits(t, d1 + 1)
        d3 == SkipDigits(t, d2 + 1)
    IN  IF /\ d1 - j \in {1, 2} /\ IsDateSep(t, d1)
           /\ d2 - (d1 + 1) \in {1, 2} /\ IsDateSep(t, d2)
           /\ d3 - (d2 + 1) >= 2
        THEN d2 + 1 + Min(d3 - (d2 + 1), 4)
        ELSE 0

\* \d{1,2} \s+ MONTH \s+ \d{2,4} at position j: the position after it, or 0.
MonthDateEnd(t, j, months) ==
    LET d1 == SkipDigits(t, j)
        s1 == SkipSpace(t, d1)
        hits == {k \in 1..Len(months) : LitAt(t, s1, months[k])}
        mlen == Len(months[CHOOSE k \in hits : \A h \in hits : k <= h])
        s2 == SkipSpace(t, s1 + mlen)
        d3 == SkipDigits(t, s2)
    IN  IF d1 - j \in {1, 2} /\ s1 > d1 /\ hits # {}
        THEN IF s2 > s1 + mlen /\ d3 - s2 >= 2 THEN s2 + Min(d3 - s2, 4) ELSE 0
        ELSE 0

\* Where group 1 of pattern p starts when the pattern is tried at position i
\* (0: the part before the group does not match), and where it ends.
DateGroupStart(t, i, p) ==
    IF p.kind = "numeric"
    THEN IF WordsAt(t, i, p.prefix) = 0 THEN 0 ELSE ColonAt(t, WordsAt(t, i, p.prefix))
    ELSE i

DateGroupEnd(t, j, p) ==
    IF j = 0 THEN 0
    ELSE IF p.kind = "month" THEN MonthDateEnd(t, j, p.months)
    ELSE NumericDateEnd(t, j)

\* re.search(pattern, text, IGNORECASE).group(1), as <<group>>, or <<>>.
DateCandidate(t, p) ==
    LET hits == {i \in 1..Len(t) : DateGroupEnd(t, DateGroupStart(t, i, p), p) # 0}
        first == CHOOSE i \in hits : \A h \in hits : i <= h
        from == DateGroupStart(t, first, p)
    IN  IF hits = {} THEN <<>>
        ELSE <<SubSeq(t, from, DateGroupEnd(t, from, p) - 1)>>

\* The formats list of _parse_date, in its order.
DateFormats == <<
    [order |-> "dmY", sep |-> "/"], [order |-> "dmY", sep |-> "-"],
    [order |-> "mdY", sep |-> "/"], [order |-> "mdY", sep |-> "-"],
    [order |-> "dmy", sep |-> "/"], [order |-> "dmy", sep |-> "-"],
    [order |-> "mdy", sep |-> "/"], [order |-> "mdy", sep |-> "-"],
    [order |-> "Ymd", sep |-> "/"], [order |-> "Ymd", sep |-> "-"]>>

\* The formats list of parse_date in the cloud function.
CloudDateFormats == <<
    [order |-> "dmY", sep |-> "/"], [order |-> "dmY", sep |-> "-"],
    [order |-> "mdY", sep |-> "/"], [order |-> "Ymd", sep |-> "-"]>>

IsLeap(y) == (y % 4 = 0 /\ y % 100 # 0) \/ y % 400 = 0

DaysInMonth(y, m) ==
    IF m = 2 THEN (IF IsLeap(y) THEN 29 ELSE 28)
    ELSE IF m \in {4, 6, 9, 11} THEN 30 ELSE 31

\* datetime.strptime(s, fmt): <<the date>>, or <<>> for ValueError.  %d is one
\* or two digits of 1..31, %m one or two digits of 1..12, %Y four digits,
\* %y two digits (00..68 are 2000.., 69..99 are 1969..); nothing may follow.
Strptime(s, fmt) ==
    LET p1 == SkipDigits(s, 1)
        p2 == SkipDigits(s, p1 + 1)
        p3 == SkipDigits(s, p2 + 1)
        shape == /\ p1 > 1 /\ p1 <= Len(s) /\ s[p1] = fmt.sep
                 /\ p2 > p1 + 1 /\ p2 <= Len(s) /\ s[p2] = fmt.sep
                 /\ p3 > p2 + 1 /\ p3 = Len(s) + 1
        f1 == SubSeq(s, 1, p1 - 1)
        f2 == SubSeq(s, p1 + 1, p2 - 1)
        f3 == SubSeq(s, p2 + 1, p3 - 1)
        fd == IF fmt.order \in {"dmY", "dmy"} THEN f1
              ELSE IF fmt.order \in {"mdY", "mdy"} THEN f2 ELSE f3
        fm == IF fmt.order \in {"dmY", "dmy"} THEN f2
              ELSE IF fmt.order \in {"mdY", "mdy"} THEN f1 ELSE f2
        fy == IF fmt.order = "Ymd" THEN f1 ELSE f3
        ylen == IF fmt.order \in {"dmy", "mdy"} THEN 2 ELSE 4
        y == IF ylen = 4 THEN ToNat(fy)
             ELSE IF ToNat(fy) <= 68 THEN 2000 + ToNat(fy) ELSE 1900 + ToNat(fy)
        m == ToNat(fm)
        d == ToNat(fd)
    IN  IF /\ shape
           /\ Len(fy) = ylen /\ y >= 1
           /\ Len(fm) <= 2 /\ m >= 1 /\ m <= 12
           /\ Len(fd) <= 2 /\ d >= 1 /\ d <= DaysInMonth(y, m)
        THEN <<[y |-> y, m |-> m, d |-> d]>>
        ELSE <<>>

\* zero-padded decimal of width w
Pad(n, w) == [k \in 1..(w - Len(ToChars(n))) |-> "0"] \o ToChars(n)

\* The day-first format '%d-%m-%Y' in place of '%Y-%m-%d'.
StrftimeDayFirst(date) == Pad(date.d, 2) \o <<"-">> \o Pad(date.m, 2) \o <<"-">> \o Pad(date.y, 4)

\* strftime('%Y-%m-%d'), for years of four digits
Strftime(date) == Pad(date.y, 4) \o <<"-">> \o Pad(date.m, 2) \o <<"-">> \o Pad(date.d, 2)

\* for fmt in formats, from format k on; today when no format parses
RECURSIVE FormatsLoop(_, _, _, _)
FormatsLoop(s, formats, k, today) ==
    IF k > Len(formats) THEN Strftime(today)
    ELSE IF Strptime(s, formats[k]) # <<>> THEN Strftime(Strptime(s, formats[k])[1])
    ELSE FormatsLoop(s, formats, k + 1, today)

\* NLPService._parse_date: it returns for every string, it never raises
ParseDate(date_str, today) == FormatsLoop(Strip(date_str), DateFormats, 1, today)

\* for pattern in self.date_patterns, from pattern k on: the first pattern
\* that has a match decides, since _parse_date never raises
RECURSIVE DateLoop(_, _, _)
DateLoop(t, k, today) ==
    IF k > Len(DatePatterns) THEN Strftime(today)
    ELSE IF DateCandidate(t, DatePatterns[k]) # <<>>
         THEN ParseDate(DateCandidate(t, DatePatterns[k])[1], today)
         ELSE DateLoop(t, k + 1, today)

\* NLPService._extract_date
ExtractDate(text, today) == DateLoop(text, 1, today)

\* date_patterns of extract_date in the cloud function: date\s*:?\s*(NUMDATE)
\* and (NUMDATE)
CloudDatePatterns == <<
    [kind |-> "numeric", prefix |-> <<<<"d", "a", "t", "e">>>>],
    [kind |-> "bare"]>>

\* parse_date of the cloud function: the string is not stripped, and it
\* returns for every string
CloudParseDate(date_str, today) == FormatsLoop(date_str, CloudDateFormats, 1, today)

\* for pattern in date_patterns, from pattern k on
RECURSIVE CloudDateLoop(_, _, _)
CloudDateLoop(t, k, today) ==
    IF k > Len(CloudDatePatterns) THEN Strftime(today)
    ELSE IF DateCandidate(t, CloudDatePatterns[k]) # <<>>
         THEN CloudParseDate(DateCandidate(t, CloudDatePatterns[k])[1], today)
         ELSE CloudDateLoop(t, k + 1, today)

\* extract_date of the cloud function
CloudExtractDate(text, today) == CloudDateLoop(text, 1, today)

(***************************************************************************)
(* 4.6 Confidence scorer.  Scores are in hundredths; the weighted sum is    *)
(* held exactly, in ten-thousandths.                                       *)
(***************************************************************************)
MedicalKeywords == <<
    <<"t", "e", "s", "t">>,
    <<"r", "e", "s", "u", "l", "t">>,
    <<"n", "o", "r", "m", "a", "l">>,
    <<"a", "b", "n", "o", "r", "m", "a", "l">>,
    <<"r", "a", "n", "g", "e">>,
    <<"l", "a", "b", "o", "r", "a", "t", "o", "r", "y">>,
    <<"c", "l", "i", "n", "i", "c">>,
    <<"h", "o", "s", "p", "i", "t", "a", "l">>,
    <<"d", "o", "c", "t", "o", "r">>,
    <<"p", "a", "t", "i", "e", "n", "t">>>>

\* sum(1 for keyword in medical_keywords if keyword in text.lower())
KeywordCount(text) ==
    Cardinality({k \in 1..Len(MedicalKeywords) : Contains(Lower(text), MedicalKeywords[k])})

\* The weights of the text length and of the keywords exchanged.
WeightedSumSwapped(biomarkers_len, text_len, keywords) ==
    Min(1000 * biomarkers_len, 5000) + 3 * Min(text_len, 1000) + 200 * keywords

\* biomarker_score * 0.5 + text_length_score * 0.2 + keyword_score * 0.3
WeightedSum(biomarkers_len, text_len, keywords) ==
    Min(1000 * biomarkers_len, 5000) + 2 * Min(text_len, 1000) + 300 * keywords

\* round(x, 2) rounds the binary double x.  When the exact sum ends in 5
\* thousandths the double lies just above or just below the midpoint; these
\* are the arguments at which the expression of lines 482-495 lies above
\* it, for the text lengths 25, 75, 125, 175, 225 and 975 (the model has no
\* other text length that gives a midpoint).
HalfRoundsUp(biomarkers_len, text_len, keywords) ==
    CASE biomarkers_len > 5 -> FALSE
    [] text_len = 25 /\ biomarkers_len = 1 -> keywords \in {0, 1, 2, 3, 4, 5, 6, 7, 9, 10}
    [] text_len = 25 /\ biomarkers_len = 2 -> keywords \in {0, 1, 2, 3, 4, 6, 7, 8, 9, 10}
    [] text_len = 25 /\ biomarkers_len = 3 -> keywords \in {0, 1, 2, 3, 4, 5, 6, 7, 8, 9}
    [] text_len = 25 /\ biomarkers_len = 4 -> keywords \in {0, 1, 2, 4, 5, 8, 9, 10}
    [] text_len = 25 /\ biomarkers_len = 5 -> keywords \in {0, 1, 5, 6, 9}
    [] text_len = 75 /\ biomarkers_len = 1 -> keywords \in {0, 1, 3, 5, 7, 9}
    [] text_len = 75 /\ biomarkers_len = 2 -> keywords \in {0, 1, 2, 3, 4, 6, 7, 8, 9, 10}
    [] text_len = 75 /\ biomarkers_len = 3 -> keywords \in {0, 1, 2, 3, 4, 5, 6, 7, 8, 9}
    [] text_len = 75 /\ biomarkers_len = 4 -> keywords \in {0, 1, 2, 3, 4, 5, 8, 9, 10}
    [] text_len = 75 /\ biomarkers_len = 5 -> keywords \in {0, 1, 4, 5, 6, 8, 9}
    [] text_len = 125 /\ biomarkers_len = 1 -> keywords \in {5, 9}
    [] text_len = 125 /\ biomarkers_len = 2 -> keywords \in {0, 1, 2, 3, 5, 6, 10}
    [] text_len = 125 /\ biomarkers_len = 3 -> keywords \in {0, 1, 2, 3, 4, 5, 6, 7, 8, 9}
    [] text_len = 125 /\ biomarkers_len = 4 -> keywords \in {0, 1, 2, 3, 4, 5, 7, 8, 9, 10}
    [] text_len = 125 /\ biomarkers_len = 5 -> keywords \in {0, 1, 4, 5, 6, 8, 9}
    [] text_len = 175 /\ biomarkers_len = 1 -> keywords \in {0, 1, 2, 3, 4, 5, 6, 8, 9}
    [] text_len = 175 /\ biomarkers_len = 2 -> keywords \in {0, 1, 2, 3, 5, 6, 7, 9, 10}
    [] text_len = 175 /\ biomarkers_len = 3 -> keywords \in {0, 2, 3, 4, 6, 7, 10}
    [] text_len = 175 /\ biomarkers_len = 4 -> keywords \in {3, 7, 8, 9}
    [] text_len = 175 /\ biomarkers_len = 5 -> keywords \in {0, 1, 4, 5, 6, 8, 9}
    [] text_len = 225 /\ biomarkers_len = 1 -> keywords \in {0, 1, 2, 3, 4, 5, 6, 8, 9, 10}
    [] text_len = 225 /\ biomarkers_len = 2 -> keywords \in {0, 1, 2, 3, 5, 6, 7, 9, 10}
    [] text_len = 225 /\ biomarkers_len = 3 -> keywords \in {0, 1, 2, 3, 4, 6, 7, 10}
    [] text_len = 225 /\ biomarkers_len = 4 -> keywords \in {0, 2, 3, 7, 8, 9}
    [] text_len = 225 /\ biomarkers_len = 5 -> keywords \in {0, 1, 3, 4, 5, 6, 7, 8, 9}
    [] text_len = 975 /\ biomarkers_len = 1 -> keywords \in {0, 1, 2, 3, 4, 5, 6, 7, 8, 9}
    [] text_len = 975 /\ biomarkers_len = 2 -> keywords \in {0, 1, 2, 4, 5, 8, 9, 10}
    [] text_len = 975 /\ biomarkers_len = 3 -> keywords \in {0, 1, 2, 3, 5, 6, 7, 8, 9, 10}
    [] text_len = 975 /\ biomarkers_len = 4 -> keywords \in {2, 10}
    [] text_len = 975 /\ biomarkers_len = 5 -> keywords \in {0, 1, 2, 3, 4, 5, 6, 7, 8, 9, 10}

\* round(min(confidence, 1.0), 2), in hundredths
Round2(biomarkers_len, text_len, keywords) ==
    LET x == Min(WeightedSum(biomarkers_len, text_len, keywords), 10000)
    IN  IF x % 100 < 50 THEN x \div 100
        ELSE IF x % 100 > 50 THEN x \div 100 + 1
        ELSE IF HalfRoundsUp(Min(biomarkers_len, 5), text_len, keywords)
             THEN x \div 100 + 1
             ELSE x \div 100

\* The guard "if not biomarkers" left out: an empty mapping is scored on
\* the text and the keywords alone.
ConfidenceUnguarded(biomarkers_len, text_len, keywords) ==
    IF biomarkers_len = 0
    THEN (Min(WeightedSum(0, text_len, keywords), 10000) + 50) \div 100
    ELSE Round2(biomarkers_len, text_len, keywords)

\* NLPService._calculate_confidence, on len(biomarkers), len(text) and the
\* number of keywords in the text
Confidence(biomarkers_len, text_len, keywords) ==
    IF biomarkers_len = 0 THEN 0 ELSE Round2(biomarkers_len, text_len, keywords)

CalculateConfidence(biomarkers, text) ==
    Confidence(Cardinality(DOMAIN biomarkers), Len(text), KeywordCount(text))

\* calculate_extraction_confidence of the cloud function:
\* round(biomarker_score * 0.7 + text_quality * 0.3, 2).  Midpoints are at
\* the text lengths 50, 150, .., 950; these are the ones that round up.
CloudHalfRoundsUp(biomarkers_len, text_len) ==
    CASE biomarkers_len > 5 -> FALSE
    [] biomarkers_len = 1 -> text_len \in {450, 850}
    [] biomarkers_len = 2 -> text_len \in {}
    [] biomarkers_len = 3 -> text_len \in {50, 150, 250, 350, 450, 550, 750, 850, 950}
    [] biomarkers_len = 4 -> text_len \in {}
    [] biomarkers_len = 5 -> text_len \in {650}

CloudConfidence(biomarkers_len, text_len) ==
    LET x == Min(1400 * biomarkers_len, 7000) + 3 * Min(text_len, 1000)
    IN  IF biomarkers_len = 0 THEN 0
        ELSE IF x % 100 < 50 THEN x \div 100
        ELSE IF x % 100 > 50 THEN x \div 100 + 1
        ELSE IF CloudHalfRoundsUp(Min(biomarkers_len, 5), text_len)
             THEN x \div 100 + 1
             ELSE x \div 100

\* test_types of extract_test_type in the cloud function, in the order of
\* the dict
CloudTestTypes == <<
    [test_type |-> "Complete Blood Count", keywords |-> {<<"c", "o", "m", "p", "l", "e", "t", "e", " ", "b", "l", "o", "o", "d", " ", "c", "o", "u", "n", "t">>, <<"c", "b", "c">>, <<"h", "e", "m", "o", "g", "r", "a", "m">>}],
    [test_type |-> "Lipid Panel", keywords |-> {<<"l", "i", "p", "i", "d", " ", "p", "r", "o", "f", "i", "l", "e">>, <<"l", "i", "p", "i", "d", " ", "p", "a", "n", "e", "l">>, <<"c", "h", "o", "l", "e", "s", "t", "e", "r", "o", "l">>}],
    [test_type |-> "Liver Function Test", keywords |-> {<<"l", "i", "v", "e", "r", " ", "f", "u", "n", "c", "t", "i", "o", "n">>, <<"l", "f", "t">>, <<"h", "e", "p", "a", "t", "i", "c">>}],
    [test_type |-> "Blood Test", keywords |-> {<<"b", "l", "o", "o", "d", " ", "t", "e", "s", "t">>, <<"b", "l", "o", "o", "d", " ", "w", "o", "r", "k">>}]>>

\* extract_test_type of the cloud function: `keyword in text`
CloudExtractTestType(text) ==
    LET hits == {g \in 1..Len(CloudTestTypes) :
                    \E keyword \in CloudTestTypes[g].keywords : Contains(text, keyword)}
    IN  IF hits = {} THEN "Medical Test"
        ELSE CloudTestTypes[CHOOSE g \in hits : \A h \in hits : g <= h].test_type

\* the dictionary returned at lines 286-292
CloudResult(text, cleaned_text, today, biomarkers) ==
    [biomarkers |-> biomarkers,
     test_type |-> CloudExtractTestType(cleaned_text),
     facility |-> CloudExtractFacility(cleaned_text),
     date |-> CloudExtractDate(cleaned_text, today),
     confidence |-> CloudConfidence(Cardinality(DOMAIN biomarkers), Len(text))]

\* lines 251-291 of extract_biomarkers in the cloud function, on the
\* cleaned text
CloudExtracted(text, cleaned_text, today) ==
    CloudResult(text, cleaned_text, today, CloudEntriesLoop(cleaned_text, 1, <<>>))

\* extract_biomarkers of the cloud function: cleaned_text is text.lower()
\* with each run of white space made one space (lines 247-248)
CloudExtractBiomarkers(text, today) == CloudExtracted(text, CollapseSpace(Lower(text)), today)

(***************************************************************************)
(* SpecFn: the helper functions on drawn arguments.                        *)
(***************************************************************************)
MaxMentions == 2     \* readings mentioned in a text given to the extractor
MaxLines == 2        \* lines of a text given to the facility extractor
MaxCount == 6        \* len(biomarkers) given to the confidence scorer
MaxShortLen == 30    \* text lengths 0..MaxShortLen given to the confidence scorer
MaxClock == 2        \* ticks of the wall clock
MaxWords == 2        \* words of a text given to the normalizer

TicksPerDay == 2     \* the clock counts half days from Epoch
Epoch == [y |-> 2026, m |-> 12, d |-> 31]

NextDay(date) ==
    IF date.d < DaysInMonth(date.y, date.m) THEN [date EXCEPT !.d = date.d + 1]
    ELSE IF date.m < 12 THEN [date EXCEPT !.m = date.m + 1, !.d = 1]
    ELSE [y |-> date.y + 1, m |-> 1, d |-> 1]

RECURSIVE AddDays(_, _)
AddDays(date, n) == IF n = 0 THEN date ELSE AddDays(NextDay(date), n - 1)

\* datetime.now().date() when the clock shows c
Today(c) == AddDays(Epoch, c \div TicksPerDay)

Vals == (0 - MaxVal)..MaxVal
BpVals == 0..(MaxVal + 2)
BpMaxima == {0} \cup (MaxVal - 2)..MaxVal

StatusArgs == {<<v, lo, hi>> : v \in Vals, lo \in Vals, hi \in Vals}

\* Sequences of at most n elements of the sequence xs, joined by sep.
RECURSIVE Joined(_, _, _)
Joined(xs, sep, n) ==
    IF n = 0 THEN {<<>>}
    ELSE LET shorter == Joined(xs, sep, n - 1)
         IN  shorter \cup {xs[k] : k \in 1..Len(xs)}
                     \cup {s \o sep \o xs[k] : s \in shorter \ {<<>>}, k \in 1..Len(xs)}

Mentions == <<
    <<"H", "b", ":", " ", "1", "0", " ", "g", "/", "d", "l">>,
    <<"h", "e", "m", "o", "g", "l", "o", "b", "i", "n", ":", " ", "1", "3", " ", "g", "/", "d", "l">>,
    <<"h", "a", "e", "m", "o", "g", "l", "o", "b", "i", "n", " ", "1", "7", ".", "5", " ", "g", "%">>,
    <<"B", "P", ":", " ", "1", "5", "0", "/", "9", "5", " ", "m", "m", "H", "g">>,
    <<"b", "l", "o", "o", "d", " ", "p", "r", "e", "s", "s", "u", "r", "e", " ", "1", "1", "0", "/", "7", "0">>,
    <<"b", "p", " ", "1", "2", "5", "/", "8", "5">>,
    <<"G", "l", "u", "c", "o", "s", "e", ":", " ", "9", "5", " ", "m", "g", "/", "d", "l">>,
    <<"t", "o", "t", "a", "l", " ", "c", "h", "o", "l", "e", "s", "t", "e", "r", "o", "l", " ", "2", "1", "0", " ", "m", "g", "/", "d", "l">>,
    <<"C", "h", "o", "l", "e", "s", "t", "e", "r", "o", "l", ":", " ", "1", "8", "0", " ", "m", "g", "/", "d", "l">>,
    <<"h", "c", "t", " ", "4", "7", " ", "%">>,
    <<"h", "b", ":", " ", "1", "3", ".", "5", " ", "g", "/", "d", "1">>,
    <<"n", "o", " ", "r", "e", "a", "d", "i", "n", "g">>,
    <<"B", "P", " ", "1", "1", "8", "/", "7", "6", " ", "m", "m", "h", "g">>>>

BiomarkerTexts == Joined(Mentions, <<",", " ">>, MaxMentions)

\* mentions for the catalog of the cloud function
CloudMentions == <<
    <<"H", "b", ":", " ", "1", "0", " ", "g", "/", "d", "l">>,
    <<"h", "b", " ", "1", "3", ".", "5", " ", "g", "m", "/", "d", "l">>,
    <<"H", "B", " ", "9", " ", "G", "/", "D", "L">>,
    <<"G", "l", "u", "c", "o", "s", "e", ":", " ", "9", "5", " ", "m", "g", "/", "d", "l">>,
    <<"g", "l", "u", "c", "o", "s", "e", " ", " ", "1", "5", "0", " ", "m", "g", "/", "d", "l">>,
    <<"C", "i", "t", "y", " ", "L", "a", "b", "\n", "c", "h", "o", "l", "e", "s", "t", "e", "r", "o", "l", " ", "1", "8", "0", " ", "m", "g", "/", "d", "l">>,
    <<"n", "o", " ", "r", "e", "a", "d", "i", "n", "g">>>>

CloudBiomarkerTexts == Joined(CloudMentions, <<",", " ">>, MaxMentions)

\* a keyword line of n characters
PadLine(n) == <<"l", "a", "b", " ">> \o [k \in 1..(n - 4) |-> "x"]

FacilityLines == <<
    <<"l", "a", "b">>,
    <<"l", "a", "b", " ", "a">>,
    <<"l", "a", "b", " ", "a", "b">>,
    <<" ", " ", "l", "a", "b", " ", "a", " ", " ">>,
    <<"C", "i", "t", "y", " ", "H", "o", "s", "p", "i", "t", "a", "l">>,
    <<"d", "r", ".", " ", "a">>,
    <<"D", "r", ".", " ", "R", "a", "o">>,
    <<"r", "e", "p", "o", "r", "t", " ", "f", "r", "o", "m", ":", " ", "c", "i", "t", "y", " ", "c", "a", "r", "e">>,
    <<"i", "s", "s", "u", "e", "d", " ", "b", "y", ":", " ", "x">>,
    <<"p", "l", "a", "i", "n", " ", "t", "e", "x", "t">>,
    <<>>>> \o <<PadLine(99), PadLine(100), PadLine(101)>>

FacilityTexts == Joined(FacilityLines, <<"\n">>, MaxLines)

DatePrefixes == <<<<>>, <<"D", "a", "t", "e", ":", " ">>, <<"t", "e", "s", "t", " ", "d", "a", "t", "e", ":", " ">>, <<"c", "o", "l", "l", "e", "c", "t", "e", "d", " ", "o", "n", " ">>, <<"r", "e", "p", "o", "r", "t", " ", "7", " ">>>>
DateDays == <<<<"1", "5">>, <<"5">>, <<"3", "1">>, <<"2", "9">>, <<"0", "1", "3">>>>
DateMonths == <<<<"0", "3">>, <<"2">>, <<"1", "2">>, <<"1", "3">>>>
DateYears == <<<<"2", "0", "2", "4">>, <<"2", "0", "2", "3">>, <<"2", "4">>, <<"9", "9">>, <<"1", "2", "3">>>>
DateSeps == {<<"/", "/">>, <<"-", "-">>, <<"/", "-">>}
UndatedTexts == {<<>>, <<"n", "o", " ", "d", "a", "t", "e", " ", "h", "e", "r", "e">>, <<"h", "b", " ", "1", "3", ".", "5", " ", "g", "/", "d", "l">>, <<"1", "/", "2">>, <<"1", "2", "-", "2", "0", "2", "4">>, <<"1", "5", " ", "m", "a", "r", " ", "2", "0", "2", "4">>, <<"D", "a", "t", "e", ":", " ", "1", "5", " ", "m", "a", "r", "c", "h", " ", "2", "4">>}

\* texts holding two dates, for two patterns of the list
TwoDateTexts == {
    <<"1", "5", "/", "0", "3", "/", "2", "0", "2", "4", " ", "d", "a", "t", "e", ":", " ", "3", "1", "/", "1", "3", "/", "2", "0", "2", "4">>,
    <<"d", "a", "t", "e", ":", " ", "3", "1", "/", "1", "3", "/", "2", "0", "2", "4", " ", "c", "o", "l", "l", "e", "c", "t", "e", "d", " ", "o", "n", " ", "1", "5", "/", "0", "3", "/", "2", "0", "2", "4">>,
    <<"D", "a", "t", "e", ":", " ", "1", "5", "/", "0", "3", "/", "2", "0", "2", "4", " ", "c", "o", "l", "l", "e", "c", "t", "e", "d", " ", "o", "n", " ", "3", "1", "/", "1", "3", "/", "2", "0", "2", "4">>,
    <<"t", "e", "s", "t", " ", "d", "a", "t", "e", " ", "3", "1", "-", "1", "3", "-", "2", "4", " ", "0", "5", "-", "0", "6", "-", "2", "0", "2", "3">>}

\* texts whose date is written year first
IsoTexts == {
    <<"2", "0", "2", "4", "-", "0", "3", "-", "1", "5">>,
    <<"d", "a", "t", "e", ":", " ", "2", "0", "2", "4", "-", "0", "3", "-", "1", "5">>,
    <<"D", "a", "t", "e", ":", " ", "2", "0", "2", "3", "-", "1", "2", "-", "0", "5", " ", "h", "b">>,
    <<"1", "9", "9", "9", "-", "0", "1", "-", "3", "1">>,
    <<"r", "e", "p", "o", "r", "t", " ", "o", "f", " ", "2", "0", "2", "4", "-", "0", "3", "-", "1", "5">>,
    <<"2", "0", "2", "4", "/", "0", "3", "/", "1", "5">>}

\* the texts given to extract_date of the cloud function
CloudDateTexts ==
    UndatedTexts \cup TwoDateTexts \cup IsoTexts
    \cup {<<"D", "a", "t", "e", ":", " ", "1", "5", "/", "0", "3", "/", "2", "0", "2", "4">>,
          <<"0", "3", "/", "1", "5", "/", "2", "0", "2", "4">>,
          <<"1", "5", "-", "0", "3", "-", "2", "4">>}

DateTexts ==
    UndatedTexts \cup TwoDateTexts \cup IsoTexts
    \cup {DatePrefixes[p] \o DateDays[d] \o <<s[1]>> \o DateMonths[m] \o <<s[2]>> \o DateYears[y]
             \o tail :
          p \in 1..Len(DatePrefixes), d \in 1..Len(DateDays), m \in 1..Len(DateMonths),
          y \in 1..Len(DateYears), s \in DateSeps, tail \in {<<>>, <<" ", "h", "b">>}}

TextLens == 0..MaxShortLen \cup 970..1002

CleanWords == <<
    <<"H", "b">>,
    <<"1", "0">>,
    <<"g", "m", "%">>,
    <<"m", "g", "%">>,
    <<"G", "M", "/", "D", "L">>,
    <<"g", "l", "u", "c", "o", "s", "e">>,
    <<"m", "g", "/", "d", "l">>,
    <<"H", "o", "s", "p", "i", "t", "a", "l">>,
    <<"\n", "\t">>,
    <<"a", "1">>,
    <<"5", "m", "g", "%">>,
    <<"G", "m", "/", "d", "L">>>>

CleanTexts == Joined(CleanWords, <<" ">>, MaxWords)

InitFn ==
    /\ calls = <<>>
    /\ clock = 0
    /\ nlp = FALSE
    /\ biomarker_patterns = BiomarkerPatterns
    /\ AppIdle
    /\ ret = <<>>
    /\ \/ /\ fn \in {"_determine_status", "determine_status"}
          /\ args \in {a \in StatusArgs : a[2] <= a[3]}
       \/ /\ fn = "_determine_bp_status"
          /\ args \in BpVals \X BpVals \X BpMaxima \X BpMaxima
       \/ /\ fn = "_extract_biomarker_values"
          /\ args \in {<<t>> : t \in BiomarkerTexts}
       \/ /\ fn \in {"_extract_facility", "extract_facility"}
          /\ args \in {<<t>> : t \in FacilityTexts}
       \/ /\ fn = "_extract_date"
          /\ args \in {<<t, Today(c)>> : t \in DateTexts, c \in 0..MaxClock}
       \/ /\ fn = "extract_date"
          /\ args \in {<<t, Today(c)>> : t \in CloudDateTexts, c \in 0..MaxClock}
       \/ /\ fn = "_clean_text"
          /\ args \in {<<t>> : t \in CleanTexts}
       \/ /\ fn = "_calculate_confidence"
          /\ args \in {a \in (0..MaxCount) \X TextLens \X (0..Len(MedicalKeywords)) :
                          a[2] < 4 => a[3] = 0}
       \/ /\ fn = "calculate_extraction_confidence"
          /\ args \in (0..MaxCount) \X TextLens

CallDetermineStatus ==
    /\ fn = "_determine_status" /\ ret = <<>>
    /\ ret' = <<DetermineStatus(args[1], args[2], args[3])>>
    /\ UNCHANGED <<fn, args, svcVars>>

CallCloudDetermineStatus ==
    /\ fn = "determine_status" /\ ret = <<>>
    /\ ret' = <<CloudDetermineStatus(args[1], args[2], args[3])>>
    /\ UNCHANGED <<fn, args, svcVars>>

CallDetermineBpStatus ==
    /\ fn = "_determine_bp_status" /\ ret = <<>>
    /\ ret' = <<DetermineBpStatus(args[1], args[2], args[3], args[4])>>
    /\ UNCHANGED <<fn, args, svcVars>>

CallExtractBiomarkerValues ==
    /\ fn = "_extract_biomarker_values" /\ ret = <<>>
    /\ ret' = <<ExtractBiomarkerValues(args[1])>>
    /\ UNCHANGED <<fn, args, svcVars>>

CallExtractFacility ==
    /\ fn = "_extract_facility" /\ ret = <<>>
    /\ ret' = <<ExtractFacility(args[1])>>
    /\ UNCHANGED <<fn, args, svcVars>>

CallCloudExtractFacility ==
    /\ fn = "extract_facility" /\ ret = <<>>
    /\ ret' = <<CloudExtractFacility(args[1])>>
    /\ UNCHANGED <<fn, args, svcVars>>

CallExtractDate ==
    /\ fn = "_extract_date" /\ ret = <<>>
    /\ ret' = <<ExtractDate(args[1], args[2])>>
    /\ UNCHANGED <<fn, args, svcVars>>

CallCloudExtractDate ==
    /\ fn = "extract_date" /\ ret = <<>>
    /\ ret' = <<CloudExtractDate(args[1], args[2])>>
    /\ UNCHANGED <<fn, args, svcVars>>

CallCloudExtractBiomarkers ==
    /\ fn = "extract_biomarkers" /\ ret = <<>>
    /\ ret' = <<CloudExtractBiomarkers(args[1], args[2])>>
    /\ UNCHANGED <<fn, args, svcVars>>

CallCalculateConfidence ==
    /\ fn = "_calculate_confidence" /\ ret = <<>>
    /\ ret' = <<Confidence(args[1], args[2], args[3])>>
    /\ UNCHANGED <<fn, args, svcVars>>

CallCloudConfidence ==
    /\ fn = "calculate_extraction_confidence" /\ ret = <<>>
    /\ ret' = <<CloudConfidence(args[1], args[2])>>
    /\ UNCHANGED <<fn, args, svcVars>>

CallCleanText ==
    /\ fn = "_clean_text" /\ ret = <<>>
    /\ ret' = <<CleanText(args[1])>>
    /\ UNCHANGED <<fn, args, svcVars>>

NextFn ==
    \/ CallDetermineStatus
    \/ CallCloudDetermineStatus
    \/ CallDetermineBpStatus
    \/ CallExtractBiomarkerValues
    \/ CallExtractFacility
    \/ CallCloudExtractFacility
    \/ CallExtractDate
    \/ CallCloudExtractDate
    \/ CallCalculateConfidence
    \/ CallCloudConfidence
    \/ CallCleanText

SpecFn == InitFn /\ [][NextFn]_vars

(***************************************************************************)
(* SpecExtract: the two extractors of readings on drawn texts,             *)
(* NLPService._extract_biomarker_values and extract_biomarkers of the      *)
(* cloud function.                                                         *)
(***************************************************************************)
InitExtract ==
    /\ calls = <<>>
    /\ clock = 0
    /\ nlp = FALSE
    /\ biomarker_patterns = BiomarkerPatterns
    /\ AppIdle
    /\ ret = <<>>
    /\ \/ /\ fn = "_extract_biomarker_values"
          /\ args \in {<<t>> : t \in BiomarkerTexts}
       \/ /\ fn = "extract_biomarkers"
          /\ args \in {<<t, Today(c)>> : t \in CloudBiomarkerTexts, c \in 0..MaxClock}

NextExtract ==
    \/ CallExtractBiomarkerValues
    \/ CallCloudExtractBiomarkers

SpecExtract == InitExtract /\ [][NextExtract]_vars

(***************************************************************************)
(* Spec: calls of NLPService.extract_biomarkers, one step of the           *)
(* orchestrator at a time, with the wall clock ticking in between.         *)
(***************************************************************************)
Requests == {1}

Str(chars) == [type |-> "str", value |-> chars]
Bytes(chars) == [type |-> "bytes", value |-> chars]
NoneValue == [type |-> "NoneType", value |-> <<>>]

ThreeReadingsText == <<"H", "b", ":", " ", "1", "3", ".", "5", " ", "g", "/", "d", "l", ",", " ", "G", "l", "u", "c", "o", "s", "e", ":", " ", "9", "5", " ", "m", "g", "/", "d", "l", ",", " ", "C", "h", "o", "l", "e", "s", "t", "e", "r", "o", "l", ":", " ", "1", "8", "0", " ", "m", "g", "/", "d", "l">>

Headers == <<<<>>,
    <<"D", "r", ".", " ", "R", "a", "o", " ", "c", "l", "i", "n", "i", "c", "\n">>>>
Bodies == <<<<"H", "b", " ", "1", "3", ".", "5", " ", "g", "%">>,
    <<"H", "B", ":", " ", "1", "0", ".", "5", " ", "g", "m", "%", ",", " ", "B", "P", " ", "1", "5", "0", "/", "9", "5">>,
    <<"t", "s", "h", " ", "2", ".", "5">>,
    <<"H", "b", ":", " ", "1", "3", ".", "5", " ", "g", "/", "d", "l", ",", " ", "G", "l", "u", "c", "o", "s", "e", ":", " ", "9", "5", " ", "m", "g", "/", "d", "l", ",", " ", "C", "h", "o", "l", "e", "s", "t", "e", "r", "o", "l", ":", " ", "1", "8", "0", " ", "m", "g", "/", "d", "l">>,
    <<"B", "P", ":", " ", "1", "5", "0", "/", "9", "5", " ", "m", "m", "H", "g">>>>
Footers == <<<<>>,
    <<" ", "t", "e", "s", "t", " ", "r", "e", "s", "u", "l", "t", " ", "D", "a", "t", "e", ":", " ", "1", "5", "/", "0", "3", "/", "2", "0", "2", "4">>>>

\* what a caller hands to extract_biomarkers: documents, the empty and the
\* blank string, and values that are not strings
\* The surface form of a catalog pattern: its words, one space between.
RECURSIVE SurfaceForm(_)
SurfaceForm(words) ==
    IF Len(words) = 1 THEN words[1]
    ELSE words[1] \o <<" ">> \o SurfaceForm(Tail(words))

\* '<surface form>: <number> <accepted unit>' for pattern k of entry e
SurfaceText(e, k) ==
    LET pattern == BiomarkerPatterns[e].patterns[k]
    IN  SurfaceForm(pattern.words) \o <<":", " ">>
        \o (IF pattern.form = "bp" THEN <<"1", "2", "0", "/", "8", "0">> ELSE <<"1", "2">>)
        \o <<" ">> \o pattern.units[1]

SurfaceTexts ==
    UNION {{SurfaceText(e, k) : k \in 1..Len(BiomarkerPatterns[e].patterns)} :
           e \in 1..Len(BiomarkerPatterns)}

Inputs ==
    {Str(Headers[h] \o Bodies[b] \o Footers[f]) :
        h \in 1..Len(Headers), b \in 1..Len(Bodies), f \in 1..Len(Footers)}
    \cup {Str(<<>>), Str(<<" ", " ", " ">>), Str(<<"D", "a", "t", "e", ":", " ", "1", "5", "/", "0", "3", "/", "2", "0", "2", "4">>),
          NoneValue, Bytes(<<>>), Bytes(<<"h", "b", " ", "1", "3", " ", "g", "%">>)}
    \cup {Str(t) : t \in SurfaceTexts}
    \cup {Str(<<"b", "r", "e", "a", "k", "f", "a", "s", "t", " ", "a", "t", " ", "8">>)}

\* "not text" with the guard narrowed to None.
FalsyNoneOnly(text) == text.type = "NoneType"

\* "not text": None, '' and b'' are falsy
Falsy(text) == text.type = "NoneType" \/ text.value = <<>>

\* NLPService._empty_result at the clock reading now
EmptyResult(now) ==
    [biomarkers |-> <<>>,
     test_type |-> "Unknown",
     facility |-> UnknownFacility,
     date |-> Strftime(Today(now)),
     entities |-> <<>>,
     confidence_score |-> 0,
     text_length |-> 0,
     processed_at |-> now]

\* A handler that logs and lets the exception go on to the caller.
HandlerReraises(c, step, now) == [c EXCEPT !.pc = "raised", !.error = step]

\* except Exception as e: the error is logged and _empty_result() returned
Handler(c, step, now) ==
    [c EXCEPT !.pc = "done", !.error = step, !.result = <<EmptyResult(now)>>]

\* what _extract_named_entities can return for a text when the model is
\* loaded: spaCy's entities are not determined by this code
PossibleEntities(text) ==
    {<<>>,
     <<[text |-> text, label |-> "ORG", start |-> 0, end |-> Len(text), confidence |-> 80]>>}

\* previous: what the caller got from its earlier call on the same text
NewCall(text) ==
    [pc |-> "start", text |-> text, cleaned_text |-> <<>>, biomarkers |-> <<>>,
     test_type |-> "", facility |-> <<>>, test_date |-> <<>>, entities |-> <<>>,
     error |-> "none", result |-> <<>>, previous |-> <<>>]

\* the service constructed, and the calls of requests on texts of inputs
\* about to start
InitWith(requests, inputs) ==
    /\ fn = "extract_biomarkers"
    /\ args = <<>>
    /\ ret = <<>>
    /\ calls \in [requests -> {NewCall(text) : text \in inputs}]
    /\ clock = 0
    /\ nlp \in BOOLEAN
    /\ biomarker_patterns = BiomarkerPatterns
    /\ AppIdle

Init == InitWith(Requests, Inputs)

\* lines 261-262
Start(p) ==
    /\ calls[p].pc = "start"
    /\ calls' = [calls EXCEPT ![p] =
                    IF Falsy(calls[p].text)
                    THEN [calls[p] EXCEPT !.pc = "done", !.result = <<EmptyResult(clock)>>]
                    ELSE [calls[p] EXCEPT !.pc = "clean"]]
    /\ UNCHANGED <<fnVars, clock, nlp, biomarker_patterns, appVars>>

\* line 265: re.sub raises TypeError on a value that is not a string
Clean(p) ==
    /\ calls[p].pc = "clean"
    /\ calls' = [calls EXCEPT ![p] =
                    IF calls[p].text.type = "str"
                    THEN [calls[p] EXCEPT !.pc = "biomarkers", !.cleaned_text = CleanText(calls[p].text.value)]
                    ELSE Handler(calls[p], "clean", clock)]
    /\ UNCHANGED <<fnVars, clock, nlp, biomarker_patterns, appVars>>

\* One mapping kept for all calls: a call starts from what the others found.
SharedBiomarkers(cs, p) ==
    LET others == {o \in DOMAIN cs : o # p /\ cs[o].biomarkers # <<>>}
    IN  IF others = {} THEN <<>> ELSE cs[CHOOSE o \in others : TRUE].biomarkers

\* biomarkers = {} (line 316): the mapping of a call is a new local one
NewBiomarkers(cs, p) == <<>>

\* line 268, with lines 316-365
Biomarkers(p) ==
    /\ calls[p].pc = "biomarkers"
    /\ calls' = [calls EXCEPT ![p] =
                    IF RaisesKeyError(calls[p].cleaned_text, biomarker_patterns)
                    THEN Handler(calls[p], "KeyError", clock)
                    ELSE [calls[p] EXCEPT !.pc = "test_type",
                              !.biomarkers = EntriesLoop(calls[p].cleaned_text,
                                                         biomarker_patterns, 1,
                                                         NewBiomarkers(calls, p))]]
    /\ UNCHANGED <<fnVars, clock, nlp, biomarker_patterns, appVars>>

\* line 269
TestType(p) ==
    /\ calls[p].pc = "test_type"
    /\ calls' = [calls EXCEPT ![p] =
                    [calls[p] EXCEPT !.pc = "facility", !.test_type = ExtractTestType(calls[p].cleaned_text)]]
    /\ UNCHANGED <<fnVars, clock, nlp, biomarker_patterns, appVars>>

\* line 270
Facility(p) ==
    /\ calls[p].pc = "facility"
    /\ calls' = [calls EXCEPT ![p] =
                    [calls[p] EXCEPT !.pc = "date", !.facility = ExtractFacility(calls[p].cleaned_text)]]
    /\ UNCHANGED <<fnVars, clock, nlp, biomarker_patterns, appVars>>

\* line 271
Date(p) ==
    /\ calls[p].pc = "date"
    /\ calls' = [calls EXCEPT ![p] =
                    [calls[p] EXCEPT !.pc = "entities",
                              !.test_date = ExtractDate(calls[p].cleaned_text, Today(clock))]]
    /\ UNCHANGED <<fnVars, clock, nlp, biomarker_patterns, appVars>>

\* line 272
Entities(p) ==
    /\ calls[p].pc = "entities"
    /\ \E found \in (IF nlp THEN PossibleEntities(calls[p].cleaned_text) ELSE {<<>>}) :
          calls' = [calls EXCEPT ![p] = [calls[p] EXCEPT !.pc = "return", !.entities = found]]
    /\ UNCHANGED <<fnVars, clock, nlp, biomarker_patterns, appVars>>

\* lines 274-285
Return(p) ==
    /\ calls[p].pc = "return"
    /\ calls' = [calls EXCEPT ![p] =
                    [calls[p] EXCEPT !.pc = "done",
                              !.result = <<[biomarkers |-> calls[p].biomarkers,
                                            test_type |-> calls[p].test_type,
                                            facility |-> calls[p].facility,
                                            date |-> calls[p].test_date,
                                            entities |-> calls[p].entities,
                                            confidence_score |->
                                                CalculateConfidence(calls[p].biomarkers, calls[p].text.value),
                                            text_length |-> Len(calls[p].text.value),
                                            processed_at |-> clock]>>]]
    /\ UNCHANGED <<fnVars, clock, nlp, biomarker_patterns, appVars>>

\* a sub-extractor, or any other statement of the try block, raises
Raise(p) ==
    /\ calls[p].pc \in {"biomarkers", "test_type", "facility", "date", "entities", "return"}
    /\ calls' = [calls EXCEPT ![p] = Handler(calls[p], calls[p].pc, clock)]
    /\ UNCHANGED <<fnVars, clock, nlp, biomarker_patterns, appVars>>

\* the caller keeps the result and calls extract_biomarkers once more on
\* the same text
Again(p) ==
    /\ calls[p].pc = "done"
    /\ calls[p].previous = <<>>
    /\ calls' = [calls EXCEPT ![p] =
                    [NewCall(calls[p].text) EXCEPT
                        !.previous = <<[result |-> calls[p].result[1],
                                        error |-> calls[p].error]>>]]
    /\ UNCHANGED <<fnVars, clock, nlp, biomarker_patterns, appVars>>

\* time passes
Tick ==
    /\ clock < MaxClock
    /\ clock' = clock + 1
    /\ UNCHANGED <<fnVars, calls, nlp, biomarker_patterns, appVars>>

Next ==
    \/ \E p \in DOMAIN calls :
          \/ Start(p)
          \/ Clean(p)
          \/ Biomarkers(p)
          \/ TestType(p)
          \/ Facility(p)
          \/ Date(p)
          \/ Entities(p)
          \/ Return(p)
          \/ Raise(p)
    \/ Tick

Spec == Init /\ [][Next]_vars

(***************************************************************************)
(* SpecAgain: a caller that calls extract_biomarkers a second time on the  *)
(* same text.                                                              *)
(***************************************************************************)
AgainInputs ==
    {Str(<<>>), Str(<<"t", "s", "h", " ", "2", ".", "5">>), Str(<<"H", "b", " ", "1", "3", ".", "5", " ", "g", "%", " ", "D", "a", "t", "e", ":", " ", "1", "5", "/", "0", "3", "/", "2", "0", "2", "4">>),
     Str(<<"D", "r", ".", " ", "R", "a", "o", " ", "c", "l", "i", "n", "i", "c", "\n", "B", "P", ":", " ", "1", "5", "0", "/", "9", "5", " ", "m", "m", "H", "g">>)}

InitAgain == InitWith(Requests, AgainInputs)

NextAgain ==
    \/ Next
    \/ \E p \in DOMAIN calls : Again(p)

SpecAgain == InitAgain /\ [][NextAgain]_vars

(***************************************************************************)
(* SpecConc: two extractions of different documents, their steps           *)
(* interleaved in any order.                                               *)
(***************************************************************************)
ConcRequests == {1, 2}

ConcInputs ==
    {Str(<<"H", "b", " ", "1", "3", ".", "5", " ", "g", "%">>),
     Str(<<"D", "r", ".", " ", "R", "a", "o", " ", "c", "l", "i", "n", "i", "c", "\n", "B", "P", ":", " ", "1", "5", "0", "/", "9", "5", " ", "m", "m", "H", "g">>)}

InitConc == InitWith(ConcRequests, ConcInputs)

SpecConc == InitConc /\ [][Next]_vars

(***************************************************************************)
(* SpecCatalog: the service constructed over the catalog as it is written, *)
(* or over an edit of it in which one entry has lost its bounds.  __init__ *)
(* stores what _load_biomarker_patterns returns (line 33) and checks       *)
(* nothing, so construction succeeds for each of them.                     *)
(***************************************************************************)
\* the catalog with the keys dropped from the entry of the name
WithoutKeys(catalog, name, keys) ==
    [e \in 1..Len(catalog) |->
        IF catalog[e].name = name
        THEN [k \in DOMAIN catalog[e] \ keys |-> catalog[e][k]]
        ELSE catalog[e]]

Catalogs ==
    {BiomarkerPatterns,
     WithoutKeys(BiomarkerPatterns, "hemoglobin", {"normal_min", "normal_max"}),
     WithoutKeys(BiomarkerPatterns, "hematocrit", {"normal_max"}),
     WithoutKeys(BiomarkerPatterns, "blood_pressure", {"normal_systolic_max", "normal_diastolic_max"}),
     WithoutKeys(BiomarkerPatterns, "blood_pressure", {"normal_diastolic_max"})}

CatalogInputs == {
    Str(<<"H", "b", " ", "9", " ", "g", "%">>),
    Str(<<"B", "P", ":", " ", "1", "5", "0", "/", "9", "5", " ", "m", "m", "H", "g">>),
    Str(<<"H", "b", " ", "1", "3", ".", "5", " ", "g", "%", ",", " ", "B", "P", " ", "1", "1", "8", "/", "7", "6">>),
    Str(<<"t", "s", "h", " ", "2", ".", "5">>),
    Str(<<"C", "i", "t", "y", " ", "C", "l", "i", "n", "i", "c", "\n", "h", "c", "t", " ", "4", "7", " ", "%">>)}

InitCatalog ==
    /\ fn = "extract_biomarkers"
    /\ args = <<>>
    /\ ret = <<>>
    /\ calls \in [Requests -> {NewCall(text) : text \in CatalogInputs}]
    /\ clock = 0
    /\ nlp \in BOOLEAN
    /\ biomarker_patterns \in Catalogs
    /\ AppIdle

SpecCatalog == InitCatalog /\ [][Next]_vars

(***************************************************************************)
(* SpecUpload: routes/upload.py.  POST /document (upload_document),        *)
(* GET /status/{record_id} (get_processing_status) and                     *)
(* DELETE /document/{record_id} (delete_uploaded_document), called by      *)
(* authenticated users; the handlers of different requests interleave at   *)
(* their awaits.  A document of 'health_records' is kept as its user_id    *)
(* and its 'deleted' mark; ids are given in the order of creation.  The    *)
(* temporary file of an upload is named by its request (uuid4 in the       *)
(* code).  Calls to Cloud Storage, OCR and Firestore can fail.             *)
(***************************************************************************)
MaxRequests == 3     \* requests handled in one behaviour

RequestIds == 1..MaxRequests
Users == {"u1", "u2"}

\* the extraction engine is not observed by these specifications
EngineIdle(name) ==
    /\ fn = name
    /\ args = <<>>
    /\ ret = <<>>
    /\ calls = <<>>
    /\ clock = 0
    /\ nlp = FALSE
    /\ biomarker_patterns = BiomarkerPatterns

\* a request that has not arrived yet
NewRequest == [pc |-> "new", kind |-> "", uid |-> "", record_id |-> 0, status |-> 0, data |-> <<>>]

InitUpload ==
    /\ EngineIdle("upload")
    /\ health_records = <<>>
    /\ users = <<>>
    /\ uploads = {}
    /\ invocations = [r \in RequestIds |-> NewRequest]

\* requests arrive in the order of their ids, and a request arrives while
\* at most one other request is being handled
Arrives(r) ==
    /\ invocations[r].pc = "new"
    /\ IF r = 1 THEN TRUE ELSE invocations[r - 1].pc # "new"
    /\ \A q \in 1..(r - 2) : invocations[q].pc = "done"

\* raise HTTPException(status_code), or return for status_code 200
Respond(c, status_code, data) == [c EXCEPT !.pc = "done", !.status = status_code, !.data = data]

\* the record ids a request can name: those of the stored records and one
\* that names no record (the id the next record will get)
RecordIds == 1..(Len(health_records) + 1)

\* FirestoreService.get_health_record (lines 116-128) on the collection
GetHealthRecord(record_id) ==
    IF record_id \in DOMAIN health_records
    THEN <<[id |-> record_id,
            user_id |-> health_records[record_id].user_id,
            deleted |-> health_records[record_id].deleted]>>
    ELSE <<>>

\* The ownership test left out.
AccessDeniedNever(record, current_user) == FALSE

\* record.get('user_id') != current_user.get('uid')  (lines 244 and 281)
AccessDenied(record, current_user) == record.user_id # current_user.uid

\* upload_document, lines 93-110: the file is validated, and the temporary
\* file is opened for writing under UPLOAD_DIR
UploadSave(r) ==
    /\ Arrives(r)
    /\ \E uid \in Users, valid \in BOOLEAN :
          IF ~valid
          THEN /\ invocations' = [invocations EXCEPT ![r] =
                       Respond([invocations[r] EXCEPT !.kind = "upload", !.uid = uid], 400, <<>>)]
               /\ uploads' = uploads
          ELSE /\ invocations' = [invocations EXCEPT ![r] =
                       [invocations[r] EXCEPT !.kind = "upload", !.uid = uid, !.pc = "saved"]]
               /\ uploads' = uploads \cup {r}
    /\ UNCHANGED <<fnVars, calls, clock, nlp, biomarker_patterns, health_records, users>>

\* what can happen between the opening of the file and the creation of
\* the record (lines 111-160)
UploadOutcomes == {"too_large", "storage_error", "ocr_error", "no_text", "firestore_error", "created"}

\* upload_document, lines 111-167 and its handlers (lines 187-198): an
\* HTTPException is raised again as it is; any other exception removes
\* the temporary file and becomes a 500; once the record is created the
\* temporary file is removed
UploadProcess(r) ==
    /\ invocations[r].pc = "saved"
    /\ \E outcome \in UploadOutcomes :
          CASE outcome \in {"too_large", "no_text"} ->
                  /\ invocations' = [invocations EXCEPT ![r] = Respond(invocations[r], 400, <<>>)]
                  /\ UNCHANGED <<uploads, health_records>>
            [] outcome \in {"storage_error", "ocr_error", "firestore_error"} ->
                  /\ invocations' = [invocations EXCEPT ![r] = Respond(invocations[r], 500, <<>>)]
                  /\ uploads' = uploads \ {r}
                  /\ UNCHANGED health_records
            [] outcome = "created" ->
                  /\ health_records' = Append(health_records,
                                              [user_id |-> invocations[r].uid, deleted |-> FALSE])
                  /\ invocations' = [invocations EXCEPT ![r] =
                          [invocations[r] EXCEPT !.pc = "created",
                                                 !.record_id = Len(health_records) + 1]]
                  /\ uploads' = uploads \ {r}
    /\ UNCHANGED <<fnVars, calls, clock, nlp, biomarker_patterns, users>>

\* upload_document, lines 169-185 and 189-198: the created record is read
\* back
UploadFinish(r) ==
    /\ invocations[r].pc = "created"
    /\ uploads' = uploads
    /\ \E read \in BOOLEAN :
          invocations' = [invocations EXCEPT ![r] =
              IF read
              THEN Respond(invocations[r], 200, GetHealthRecord(invocations[r].record_id))
              ELSE Respond(invocations[r], 500, <<>>)]
    /\ UNCHANGED <<fnVars, calls, clock, nlp, biomarker_patterns, health_records, users>>

\* get_processing_status (lines 230-265)
GetProcessingStatus(r) ==
    /\ Arrives(r)
    /\ \E uid \in Users, record_id \in RecordIds, read \in BOOLEAN :
          LET c == [invocations[r] EXCEPT !.kind = "status", !.uid = uid, !.record_id = record_id]
              record == GetHealthRecord(record_id)
          IN  invocations' = [invocations EXCEPT ![r] =
                  IF ~read THEN Respond(c, 500, <<>>)
                  ELSE IF record = <<>> THEN Respond(c, 404, <<>>)
                  ELSE IF AccessDenied(record[1], c) THEN Respond(c, 403, <<>>)
                  ELSE Respond(c, 200, record)]
    /\ UNCHANGED <<fnVars, calls, clock, nlp, biomarker_patterns, health_records, users, uploads>>

\* delete_uploaded_document, lines 274-291: the record is read and the
\* caller checked
DeleteCheck(r) ==
    /\ Arrives(r)
    /\ \E uid \in Users, record_id \in RecordIds, read \in BOOLEAN :
          LET c == [invocations[r] EXCEPT !.kind = "delete", !.uid = uid, !.record_id = record_id]
              record == GetHealthRecord(record_id)
          IN  invocations' = [invocations EXCEPT ![r] =
                  IF ~read THEN Respond(c, 500, <<>>)
                  ELSE IF record = <<>> THEN Respond(c, 404, <<>>)
                  ELSE IF AccessDenied(record[1], c) THEN Respond(c, 403, <<>>)
                  ELSE [c EXCEPT !.pc = "deleting"]]
    /\ UNCHANGED <<fnVars, calls, clock, nlp, biomarker_patterns, health_records, users, uploads>>

\* delete_uploaded_document, lines 293-305, with
\* FirestoreService.delete_health_record (lines 146-158): the record is
\* marked deleted, or the update fails
DeleteWrite(r) ==
    /\ invocations[r].pc = "deleting"
    /\ \E written \in BOOLEAN :
          IF written
          THEN /\ health_records' = [health_records EXCEPT ![invocations[r].record_id].deleted = TRUE]
               /\ invocations' = [invocations EXCEPT ![r] = Respond(invocations[r], 200, <<>>)]
          ELSE /\ health_records' = health_records
               /\ invocations' = [invocations EXCEPT ![r] = Respond(invocations[r], 500, <<>>)]
    /\ UNCHANGED <<fnVars, calls, clock, nlp, biomarker_patterns, users, uploads>>

NextUpload ==
    \E r \in RequestIds :
        \/ UploadSave(r)
        \/ UploadProcess(r)
        \/ UploadFinish(r)
        \/ GetProcessingStatus(r)
        \/ DeleteCheck(r)
        \/ DeleteWrite(r)

SpecUpload == InitUpload /\ [][NextUpload]_vars

(***************************************************************************)
(* SpecCloud: process_document of the document-processor cloud function,   *)
(* started by the storage events of uploaded objects.  Instances of the    *)
(* function handle different events at the same time and share the         *)
(* 'health_records' collection; a record is kept as its user_id and its    *)
(* document_url (the object name; the bucket is the same for all events).  *)
(* Calls to Cloud Storage, Vision and Firestore can fail.                  *)
(***************************************************************************)
\* str.startswith
StartsWith(t, prefix) == Len(t) >= Len(prefix) /\ SubSeq(t, 1, Len(prefix)) = prefix

\* str.split(sep) for a separator of one character
RECURSIVE SplitOn(_, _)
SplitOn(t, sep) ==
    IF \A i \in 1..Len(t) : t[i] # sep
    THEN <<t>>
    ELSE LET i == CHOOSE i \in 1..Len(t) : t[i] = sep /\ \A j \in 1..(i - 1) : t[j] # sep
         IN  <<SubSeq(t, 1, i - 1)>> \o SplitOn(SubSeq(t, i + 1, Len(t)), sep)

\* event data: the name of the object, or data without 'name'
ObjectNames == {<<"d", "o", "c", "u", "m", "e", "n", "t", "s", "/", "u", "1", "/", "a", ".", "p", "d", "f">>, <<"d", "o", "c", "u", "m", "e", "n", "t", "s", "/", "u", "2", "/", "x", "/", "y", ".", "p", "n", "g">>, <<"d", "o", "c", "u", "m", "e", "n", "t", "s", "/", "a", ".", "p", "d", "f">>, <<"o", "t", "h", "e", "r", "/", "u", "1", "/", "a", ".", "p", "d", "f">>, <<"d", "o", "c", "u", "m", "e", "n", "t", "s", "/", "/", "a", ".", "p", "d", "f">>, <<"d", "o", "c", "u", "m", "e", "n", "t", "s", "/">>}
CloudEvents == {<<n>> : n \in ObjectNames} \cup {<<>>}

NewEvent == [pc |-> "new", data |-> <<>>, user_id |-> <<>>, blob |-> "", text |-> "", result |-> ""]

InitCloud ==
    /\ EngineIdle("process_document")
    /\ health_records = <<>>
    /\ users = <<>>
    /\ uploads = {}
    /\ invocations = [r \in RequestIds |-> NewEvent]

\* The test of the path structure left out.
AnyPath(path_parts) == TRUE

\* not (len(path_parts) < 3)  (line 91)
ValidPath(path_parts) == ~(Len(path_parts) < 3)

\* 'return' of process_document: "none" for a bare return, "success" for
\* the dictionary of line 151
Returns(e, result) == [e EXCEPT !.pc = "done", !.result = result]

\* except Exception (lines 157-163): the dictionary with 'success': False
Caught(e) == [e EXCEPT !.pc = "done", !.result = "failure"]

\* process_document, lines 76-95: the object name is read from the event
\* and checked
ProcessLocate(r) ==
    /\ Arrives(r)
    /\ \E data \in CloudEvents :
          LET e == [invocations[r] EXCEPT !.data = data]
          IN  invocations' = [invocations EXCEPT ![r] =
                  IF data = <<>> THEN Caught(e)
                  ELSE IF ~StartsWith(data[1], <<"d", "o", "c", "u", "m", "e", "n", "t", "s", "/">>) THEN Returns(e, "none")
                  ELSE IF ~ValidPath(SplitOn(data[1], "/")) THEN Returns(e, "none")
                  ELSE [e EXCEPT !.pc = "located", !.user_id = SplitOn(data[1], "/")[2]]]
    /\ UNCHANGED <<fnVars, calls, clock, nlp, biomarker_patterns, health_records, users, uploads>>

\* what Cloud Storage and Vision can answer
ReadOutcomes == {"storage_error", "no_blob", "download_error", "ocr_error", "no_text", "text"}

\* perform_ocr (lines 166-210): the text, '' when Vision fails
PerformOcr(outcome) == IF outcome = "text" THEN "text" ELSE ""

\* process_document, lines 97-118: the blob is looked up and downloaded,
\* and its text is read
ProcessRead(r) ==
    /\ invocations[r].pc = "located"
    /\ \E outcome \in ReadOutcomes :
          LET e == invocations[r]
          IN  invocations' = [invocations EXCEPT ![r] =
                  CASE outcome = "storage_error" -> Caught(e)
                    [] outcome = "no_blob" -> Returns([e EXCEPT !.blob = "missing"], "none")
                    [] outcome = "download_error" -> Caught([e EXCEPT !.blob = "exists"])
                    [] OTHER ->
                         IF PerformOcr(outcome) = ""
                         THEN Returns([e EXCEPT !.blob = "exists"], "none")
                         ELSE [e EXCEPT !.blob = "exists", !.text = PerformOcr(outcome), !.pc = "read"]]
    /\ UNCHANGED <<fnVars, calls, clock, nlp, biomarker_patterns, health_records, users, uploads>>

\* process_document, lines 120-155: the record is written, or the write
\* fails
ProcessWrite(r) ==
    /\ invocations[r].pc = "read"
    /\ \E written \in BOOLEAN :
          IF written
          THEN /\ health_records' = Append(health_records,
                       [user_id |-> invocations[r].user_id, document_url |-> invocations[r].data[1]])
               /\ invocations' = [invocations EXCEPT ![r] = Returns(invocations[r], "success")]
          ELSE /\ health_records' = health_records
               /\ invocations' = [invocations EXCEPT ![r] = Caught(invocations[r])]
    /\ UNCHANGED <<fnVars, calls, clock, nlp, biomarker_patterns, users, uploads>>

NextCloud ==
    \E r \in RequestIds :
        \/ ProcessLocate(r)
        \/ ProcessRead(r)
        \/ ProcessWrite(r)

SpecCloud == InitCloud /\ [][NextCloud]_vars

(***************************************************************************)
(* SpecUsers: routes/health_records.py.  POST /register (register_user),   *)
(* POST /login (login_user) and PUT /profile (update_user_profile) on the  *)
(* 'users' collection.  A profile is kept as its name, its phone and its   *)
(* profile_completed mark; '' is the empty sequence.  Each request is      *)
(* handled in one step, so the behaviours are those of requests that do    *)
(* not overlap.  Calls to Firestore can fail.                              *)
(***************************************************************************)
\* the values a name or a phone takes
FieldValues == {<<>>, <<"A">>}

\* auth.get_user(uid): the accounts of Firebase Authentication; display_name
\* and phone_number are None for an account without them
FirebaseUser(uid) ==
    IF uid = "u1"
    THEN [display_name |-> <<<<"A">>>>, phone_number |-> <<<<"A">>>>]
    ELSE [display_name |-> <<>>, phone_number |-> <<>>]

\* x or ''  for x a string or None
OrEmpty(x) == IF x = <<>> \/ x[1] = <<>> THEN <<>> ELSE x[1]

\* the bodies of PUT /profile: any of name and phone, given or left out
UpdateBodies ==
    {<<>>} \cup {[f \in {"name"} |-> v] : v \in FieldValues}
           \cup {[f \in {"phone"} |-> v] : v \in FieldValues}
           \cup {[f \in {"name", "phone"} |-> IF f = "name" THEN v ELSE w] : v, w \in FieldValues}

\* a request that has not arrived yet
NewUserRequest == [pc |-> "new", kind |-> "", uid |-> "", status |-> 0]

InitUsers ==
    /\ EngineIdle("users")
    /\ health_records = <<>>
    /\ users = <<>>
    /\ uploads = {}
    /\ invocations = [r \in RequestIds |-> NewUserRequest]

\* the response of request r
Answer(r, kind, uid, status_code) ==
    invocations' = [invocations EXCEPT ![r] =
        [pc |-> "done", kind |-> kind, uid |-> uid, status |-> status_code]]

\* d.get(field) is truthy
Truthy(d, field) == field \in DOMAIN d /\ d[field] # <<>>

\* bool(name and phone)  (line 56)
BothGiven(name, phone) == name # <<>> /\ phone # <<>>

\* all(update_data.get(field) or current_profile.get(field)
\*     for field in required_fields)  (lines 231-234)
ProfileCompleted(update_data, current_profile) ==
    \A field \in {"name", "phone"} : Truthy(update_data, field) \/ Truthy(current_profile, field)

\* DocumentReference.update: the given fields replace the stored ones
Updated(profile, update_data) ==
    [f \in DOMAIN profile \cup DOMAIN update_data |->
        IF f \in DOMAIN update_data THEN update_data[f] ELSE profile[f]]

\* register_user (lines 19-82)
RegisterUser(r) ==
    /\ Arrives(r)
    /\ \E uid \in Users, name \in FieldValues, phone \in FieldValues, stored \in BOOLEAN :
          IF ~stored
          THEN Answer(r, "register", uid, 500) /\ users' = users
          ELSE IF uid \in DOMAIN users
          THEN Answer(r, "register", uid, 400) /\ users' = users
          ELSE /\ Answer(r, "register", uid, 200)
               /\ users' = users @@ (uid :> [name |-> name, phone |-> phone,
                                              profile_completed |-> BothGiven(name, phone)])
    /\ UNCHANGED <<fnVars, calls, clock, nlp, biomarker_patterns, health_records, uploads>>

\* login_user (lines 84-142)
LoginUser(r) ==
    /\ Arrives(r)
    /\ \E uid \in Users, stored \in BOOLEAN :
          IF ~stored
          THEN Answer(r, "login", uid, 500) /\ users' = users
          ELSE IF uid \notin DOMAIN users
          THEN /\ Answer(r, "login", uid, 200)
               /\ users' = users @@ (uid :> [name |-> OrEmpty(FirebaseUser(uid).display_name),
                                              phone |-> OrEmpty(FirebaseUser(uid).phone_number),
                                              profile_completed |-> FALSE])
          ELSE Answer(r, "login", uid, 200) /\ users' = users
    /\ UNCHANGED <<fnVars, calls, clock, nlp, biomarker_patterns, health_records, uploads>>

\* update_user_profile (lines 208-257) with
\* FirestoreService.update_user_profile (lines 52-65), which fails for a
\* user without a profile
UpdateUserProfile(r) ==
    /\ Arrives(r)
    /\ \E uid \in Users, body \in UpdateBodies, stored \in BOOLEAN :
          IF ~stored \/ uid \notin DOMAIN users
          THEN Answer(r, "update", uid, 500) /\ users' = users
          ELSE LET update_data == body @@ [f \in {"profile_completed"} |->
                                              ProfileCompleted(body, users[uid])]
               IN  /\ Answer(r, "update", uid, 200)
                   /\ users' = [users EXCEPT ![uid] = Updated(users[uid], update_data)]
    /\ UNCHANGED <<fnVars, calls, clock, nlp, biomarker_patterns, health_records, uploads>>

NextUsers ==
    \E r \in RequestIds :
        \/ RegisterUser(r)
        \/ LoginUser(r)
        \/ UpdateUserProfile(r)

SpecUsers == InitUsers /\ [][NextUsers]_vars

(***************************************************************************)
(* Properties of extract_biomarkers (Spec).                                *)
(***************************************************************************)
Done(p) == calls[p].pc = "done"

ResultFields == {"biomarkers", "test_type", "facility", "date", "entities",
                 "confidence_score", "text_length", "processed_at"}

\* C3: extract_biomarkers on 'Hb: 13.5 g/dl, Glucose: 95 mg/dl,
\* Cholesterol: 180 mg/dl' returns exactly three readings: hemoglobin 13.5
\* normal, blood_sugar 95 normal, cholesterol 180 normal, and a
\* confidence_score greater than 0.
C3_ThreeReadings ==
    \A p \in Requests :
        (Done(p) /\ calls[p].error = "none" /\ calls[p].text = Str(ThreeReadingsText)) =>
            LET r == calls[p].result[1]
            IN  /\ DOMAIN r.biomarkers = {"hemoglobin", "blood_sugar", "cholesterol"}
                /\ r.biomarkers["hemoglobin"].value = 135
                /\ r.biomarkers["hemoglobin"].status = "normal"
                /\ r.biomarkers["blood_sugar"].value = 950
                /\ r.biomarkers["blood_sugar"].status = "normal"
                /\ r.biomarkers["cholesterol"].value = 1800
                /\ r.biomarkers["cholesterol"].status = "normal"
                /\ r.confidence_score > 0

\* C5: extract_biomarkers never raises to its caller; whatever the input
\* and wherever a step throws, the result it returns has all eight fields,
\* and after a failure it has no biomarkers, the default metadata and
\* confidence_score 0.0.
C5_AlwaysWellFormed ==
    \A p \in Requests :
        /\ calls[p].pc # "raised"
        /\ Done(p) =>
              /\ Len(calls[p].result) = 1
              /\ DOMAIN calls[p].result[1] = ResultFields
              /\ calls[p].error # "none" =>
                    LET r == calls[p].result[1]
                    IN  /\ r.biomarkers = <<>>
                        /\ r.test_type = "Unknown"
                        /\ r.facility = UnknownFacility
                        /\ r.date = Strftime(Today(r.processed_at))
                        /\ r.entities = <<>>
                        /\ r.confidence_score = 0
                        /\ r.text_length = 0

\* a call that had found a biomarker when a later sub-extractor threw
C5_Witness ==
    \E p \in Requests :
        /\ Done(p)
        /\ calls[p].error = "facility"
        /\ calls[p].biomarkers # <<>>
        /\ calls[p].result[1].biomarkers = <<>>

\* C8 (as stated): extract_biomarkers on the empty string returns
\* biomarkers = {}, confidence_score = 0.0, test_type = 'Medical Test' and
\* date = the current date in YYYY-MM-DD.
C8_MedicalTest ==
    \A p \in Requests :
        (Done(p) /\ calls[p].text = Str(<<>>)) =>
            LET r == calls[p].result[1]
            IN  /\ r.biomarkers = <<>>
                /\ r.confidence_score = 0
                /\ r.test_type = "Medical Test"
                /\ r.date = Strftime(Today(r.processed_at))

\* C8 (amended): extract_biomarkers on the empty string returns
\* biomarkers = {}, confidence_score = 0.0, test_type = 'Unknown' (the
\* default of _empty_result; the test-type extractor is not run) and date =
\* the current date in YYYY-MM-DD.
C8_EmptyString ==
    \A p \in Requests :
        (Done(p) /\ calls[p].text = Str(<<>>)) =>
            LET r == calls[p].result[1]
            IN  /\ r.biomarkers = <<>>
                /\ r.confidence_score = 0
                /\ r.test_type = "Unknown"
                /\ r.date = Strftime(Today(r.processed_at))
                /\ Len(r.date) = 10

\* the empty string handled a day after the service started
C8_Witness ==
    \E p \in Requests :
        /\ Done(p)
        /\ calls[p].text = Str(<<>>)
        /\ calls[p].error = "none"
        /\ calls[p].result[1].processed_at >= TicksPerDay
        /\ calls[p].result[1].date # Strftime(Epoch)

\* some keyword group of the test types has a pattern found in t
KeywordGroupMatches(t) ==
    \E g \in 1..Len(TestTypePatterns) :
        \E k \in 1..Len(TestTypePatterns[g].patterns) :
            SearchWords(t, TestTypePatterns[g].patterns[k])

CholesterolFamily == {"cholesterol", "ldl_cholesterol", "hdl_cholesterol", "triglycerides"}

\* C21: when no test-type keyword group matches the text, the test type is
\* inferred from the biomarkers that were extracted: a cholesterol-family
\* reading gives 'Lipid Panel', and a text that yields no readings gets the
\* default 'Medical Test'.
C21_TestTypeFromReadings ==
    \A p \in DOMAIN calls :
        (/\ Done(p) /\ calls[p].error = "none"
         /\ calls[p].text.type = "str" /\ calls[p].text.value # <<>>
         /\ ~KeywordGroupMatches(calls[p].text.value)
         /\ ~KeywordGroupMatches(calls[p].cleaned_text))
        => LET r == calls[p].result[1]
           IN  /\ r.biomarkers = <<>> => r.test_type = "Medical Test"
               /\ DOMAIN r.biomarkers \cap CholesterolFamily # {} => r.test_type = "Lipid Panel"

\* C22: when the test type, facility or date sub-extractor fails during
\* extract_biomarkers, only that field is replaced by its default: the
\* values the sub-extractors before it produced, the extracted biomarkers
\* in particular, are kept in the returned result.
C22_OtherFieldsKept ==
    \A p \in DOMAIN calls :
        (Done(p) /\ calls[p].error \in {"test_type", "facility", "date"})
        => /\ calls[p].result[1].biomarkers = calls[p].biomarkers
           /\ calls[p].error \in {"facility", "date"}
                 => calls[p].result[1].test_type = calls[p].test_type
           /\ calls[p].error = "date"
                 => calls[p].result[1].facility = calls[p].facility

\* the bounds the classifier of an entry needs
RequiredBounds(config) ==
    IF config.name = "blood_pressure"
    THEN {"normal_systolic_max", "normal_diastolic_max"}
    ELSE {"normal_min", "normal_max"}

HasBounds(config) == RequiredBounds(config) \subseteq DOMAIN config

InstitutionKeywords == {<<"h", "o", "s", "p", "i", "t", "a", "l">>, <<"c", "l", "i", "n", "i", "c">>, <<"d", "i", "a", "g", "n", "o", "s", "t", "i", "c", "s">>, <<"l", "a", "b">>, <<"l", "a", "b", "o", "r", "a", "t", "o", "r", "y">>, <<"p", "a", "t", "h", "o", "l", "o", "g", "y">>}

\* the lines of t that hold an institution keyword and whose trimmed length
\* is above 5 and below 100
InstitutionLines(t) ==
    {l \in {SubSeq(t, a, b) : a \in {1} \cup {i + 1 : i \in {i \in 1..Len(t) : t[i] = "\n"}},
                              b \in {Len(t)} \cup {i - 1 : i \in {i \in 1..Len(t) : t[i] = "\n"}}} :
        /\ \A i \in 1..Len(l) : l[i] # "\n"
        /\ \E keyword \in InstitutionKeywords : Contains(Lower(l), keyword)
        /\ Len(Strip(l)) > 5 /\ Len(Strip(l)) < 100}

\* C26: for a document of several lines in which a line holds an
\* institution keyword and has a trimmed length between 5 and 100,
\* extract_biomarkers returns that line (letter case aside) as the facility,
\* not the whole document text and not the default.
C26_FacilityLine ==
    \A p \in DOMAIN calls :
        (/\ Done(p) /\ calls[p].error = "none" /\ calls[p].text.type = "str"
         /\ \E i \in 1..Len(calls[p].text.value) : calls[p].text.value[i] = "\n"
         /\ InstitutionLines(calls[p].text.value) # {})
        => \E l \in InstitutionLines(calls[p].text.value) :
               Lower(calls[p].result[1].facility) = Lower(Strip(l))

\* C12: for every surface form of the catalog, extract_biomarkers on
\* '<surface form>: <number> <accepted unit>' returns a reading under that
\* biomarker's name, with the catalog's canonical unit when the pattern has
\* no unit capture group.
C12_EverySurfaceForm ==
    \A p \in DOMAIN calls :
        (Done(p) /\ calls[p].error = "none") =>
            \A e \in 1..Len(BiomarkerPatterns) :
                \A k \in 1..Len(BiomarkerPatterns[e].patterns) :
                    calls[p].text = Str(SurfaceText(e, k)) =>
                        LET config == BiomarkerPatterns[e]
                            found == calls[p].result[1].biomarkers
                        IN  /\ config.name \in DOMAIN found
                            /\ config.patterns[k].form = "value_pct" =>
                                  found[config.name].unit = config.unit

\* C14: extraction is a pure function of its input text: two calls of
\* extract_biomarkers on the same text, made at any two moments, return
\* identical results in every field.
C14_SameTextSameResult ==
    \A p \in DOMAIN calls :
        (/\ Done(p) /\ calls[p].error = "none"
         /\ calls[p].previous # <<>> /\ calls[p].previous[1].error = "none")
        => calls[p].result[1] = calls[p].previous[1].result

\* C16: extraction never writes to the catalog or to other state shared
\* between calls: with several extractions of different documents running
\* in any interleaving the catalog stays as loaded, and each extraction
\* returns the biomarkers, test type and facility it returns when run alone.
C16_NoSharedState ==
    /\ biomarker_patterns = BiomarkerPatterns
    /\ \A p \in DOMAIN calls :
          (Done(p) /\ calls[p].error = "none") =>
              \A alone \in {CleanText(calls[p].text.value)} :
                  /\ calls[p].result[1].biomarkers = ExtractBiomarkerValues(alone)
                  /\ calls[p].result[1].test_type = ExtractTestType(alone)
                  /\ calls[p].result[1].facility = ExtractFacility(alone)

\* two different documents in flight at once, each past the biomarker
\* step with its own reading found
C16_Witness ==
    /\ DOMAIN calls = ConcRequests
    /\ calls[1].text # calls[2].text
    /\ calls[1].pc = "facility" /\ calls[1].biomarkers # <<>>
    /\ calls[2].pc = "test_type" /\ calls[2].biomarkers # <<>>
    /\ calls[1].biomarkers # calls[2].biomarkers

(***************************************************************************)
(* Properties of the range classifiers (SpecFn).                           *)
(***************************************************************************)
Returned(name) == fn = name /\ ret # <<>>

InRange(v, lo, hi) == lo <= v /\ v <= hi
InBand(v, lo, hi) == 9 * lo <= 10 * v /\ 10 * v <= 11 * hi

BloodPressureEntry == CHOOSE c \in {BiomarkerPatterns[e] : e \in 1..Len(BiomarkerPatterns)} :
                          c.name = "blood_pressure"

\* the positions of t where a blood-pressure pattern matches
BpMentions(t) == {i \in 1..Len(t) : \E k \in 1..Len(BloodPressureEntry.patterns) :
                                       LET m == MatchAt(t, i, BloodPressureEntry.patterns[k])
                                       IN  m.ok /\ m.start = i}

Bp150Over95 == <<"B", "P", ":", " ", "1", "5", "0", "/", "9", "5", " ", "m", "m", "H", "g">>

\* C2: _determine_bp_status returns "normal" exactly when both readings are
\* within their maxima, "borderline" exactly when that fails and both are
\* within 1.1 times their maxima, "abnormal" otherwise; a text whose
\* blood-pressure mention is 'BP: 150/95 mmHg' yields a blood_pressure
\* reading with systolic 150, diastolic 95 and status abnormal.
C2_BpBands ==
    /\ Returned("_determine_bp_status") =>
          LET s == args[1]
              d == args[2]
              ns == args[3]
              nd == args[4]
              within == s <= ns /\ d <= nd
              near == 10 * s <= 11 * ns /\ 10 * d <= 11 * nd
          IN  /\ ret[1] = "normal" <=> within
              /\ ret[1] = "borderline" <=> (~within /\ near)
              /\ ret[1] = "abnormal" <=> (~within /\ ~near)
    /\ Returned("_extract_biomarker_values") =>
          \A i \in 1..Len(args[1]) :
             (ExactAt(args[1], i, Bp150Over95) /\ BpMentions(args[1]) = {i}) =>
                 /\ "blood_pressure" \in DOMAIN ret[1]
                 /\ ret[1]["blood_pressure"].systolic = 1500
                 /\ ret[1]["blood_pressure"].diastolic = 950
                 /\ ret[1]["blood_pressure"].status = "abnormal"

\* the reading of a text that mentions 150/95 after another biomarker
C2_Witness ==
    /\ Returned("_extract_biomarker_values")
    /\ \E i \in 2..Len(args[1]) :
          ExactAt(args[1], i, Bp150Over95) /\ BpMentions(args[1]) = {i}
    /\ "blood_pressure" \in DOMAIN ret[1]
    /\ ret[1]["blood_pressure"].status = "abnormal"

\* the patterns of a catalog entry that have a parsable occurrence in t
MatchingPatterns(t, config) ==
    {k \in 1..Len(config.patterns) : FirstParsed(t, 1, config.name, config.patterns[k]).ok}

\* C4: for each biomarker the first matching synonym pattern, in catalog
\* order, and its first parsable occurrence supply the reading; a match of
\* a later pattern never replaces it.
C4_FirstPatternWins ==
    Returned("_extract_biomarker_values") =>
        \A e \in 1..Len(BiomarkerPatterns) :
            LET config == BiomarkerPatterns[e]
                ks == MatchingPatterns(args[1], config)
                first == CHOOSE k \in ks : \A j \in ks : k <= j
            IN  IF ks = {} THEN config.name \notin DOMAIN ret[1]
                ELSE /\ config.name \in DOMAIN ret[1]
                     /\ ret[1][config.name] =
                           Reading(config.name, config,
                                   FirstParsed(args[1], 1, config.name, config.patterns[first]))

(***************************************************************************)
(* Properties of the confidence scorers (SpecFn).                          *)
(***************************************************************************)
\* C6: the confidence score is 0.0 exactly when no biomarkers were found:
\* _calculate_confidence (and the cloud scorer) returns 0.0 for an empty
\* biomarker mapping whatever the text length and keyword content, and a
\* value strictly greater than 0 whenever at least one biomarker was found.
C6_ZeroIffNoBiomarkers ==
    (Returned("_calculate_confidence") \/ Returned("calculate_extraction_confidence")) =>
        /\ args[1] = 0 => ret[1] = 0
        /\ args[1] > 0 => ret[1] > 0

\* no biomarkers, a text of 1000 characters or more that holds every keyword
C6_Witness ==
    /\ Returned("_calculate_confidence")
    /\ args[1] = 0 /\ args[2] >= 1000 /\ args[3] = Len(MedicalKeywords)
    /\ ret[1] = 0

\* The score of the claim, in ten-thousandths:
\* 0.5*min(0.2*count, 1) + 0.2*min(len/1000, 1) + 0.3*(present/size), clamped.
ClaimedScore(count, len, present) ==
    LET sum == (5 * Min(2000 * count, 10000)) \div 10
               + 2 * Min(len, 1000)
               + (3000 * present) \div Len(MedicalKeywords)
    IN  Max(0, Min(sum, 10000))

\* C7: for a non-empty biomarker mapping _calculate_confidence is the
\* weighted score rounded to two decimals (the nearest hundredth), it lies
\* in [0, 1], and it does not decrease when the biomarker count, the text
\* length or the number of present keywords increases.
C7_ConfidenceFormula ==
    (Returned("_calculate_confidence") /\ args[1] > 0) =>
        LET n == args[1]
            L == args[2]
            k == args[3]
            diff == 100 * ret[1] - ClaimedScore(n, L, k)
        IN  /\ diff >= 0 - 50 /\ diff <= 50
            /\ ret[1] >= 0 /\ ret[1] <= 100
            /\ \A n2 \in n..(MaxCount + 1) : Confidence(n2, L, k) >= ret[1]
            /\ \A L2 \in {l \in TextLens : l >= L} : Confidence(n, L2, k) >= ret[1]
            /\ \A k2 \in k..Len(MedicalKeywords) : Confidence(n, L, k2) >= ret[1]

\* all three terms positive and the sum strictly between two hundredths:
\* 0.1 + 0.0034 + 0.06 = 0.1634 gives 0.16
C7_Witness ==
    /\ Returned("_calculate_confidence")
    /\ args[1] = 1 /\ args[2] = 17 /\ args[3] = 2
    /\ ret[1] = 16

\* the patterns of a catalog entry that match somewhere in t
PatternsFound(t, config) ==
    {k \in 1..Len(config.patterns) :
        \E i \in 1..Len(t) : MatchAt(t, i, config.patterns[k]).ok}

\* the match of pattern p that starts first in t
Leftmost(t, p) ==
    MatchAt(t, CHOOSE i \in 1..Len(t) :
                   /\ MatchAt(t, i, p).ok
                   /\ \A h \in 1..(i - 1) : ~MatchAt(t, h, p).ok, p)

\* C25: when a single pattern of a catalog entry matches at several places
\* in the text, the reading is taken from the leftmost match and the later
\* occurrences matched by that pattern do not change it; in the service
\* and in the cloud function.
C25_LeftmostMatch ==
    /\ Returned("_extract_biomarker_values") =>
          \A e \in 1..Len(BiomarkerPatterns) :
              LET config == BiomarkerPatterns[e]
                  ks == PatternsFound(args[1], config)
              IN  Cardinality(ks) = 1 =>
                      /\ config.name \in DOMAIN ret[1]
                      /\ ret[1][config.name] =
                            Reading(config.name, config,
                                    Leftmost(args[1], config.patterns[CHOOSE k \in ks : TRUE]))
    /\ Returned("extract_biomarkers") =>
          \A e \in 1..Len(CloudBiomarkerPatterns) :
              LET config == CloudBiomarkerPatterns[e]
                  cleaned == CollapseSpace(Lower(args[1]))
                  ks == PatternsFound(cleaned, config)
              IN  Cardinality(ks) = 1 =>
                      /\ config.name \in DOMAIN ret[1].biomarkers
                      /\ ret[1].biomarkers[config.name] =
                            CloudReading(config, Leftmost(cleaned, config.patterns[CHOOSE k \in ks : TRUE]))

\* blood pressure written twice for the same pattern, with different
\* values, and the first of them reported
C25_Witness ==
    /\ Returned("_extract_biomarker_values")
    /\ \E e \in 1..Len(BiomarkerPatterns) :
          LET config == BiomarkerPatterns[e]
              ks == PatternsFound(args[1], config)
          IN  /\ Cardinality(ks) = 1
              /\ \E i, j \in 1..Len(args[1]) :
                    /\ i < j
                    /\ MatchAt(args[1], i, config.patterns[CHOOSE k \in ks : TRUE]).ok
                    /\ MatchAt(args[1], j, config.patterns[CHOOSE k \in ks : TRUE]).ok
                    /\ MatchAt(args[1], i, config.patterns[CHOOSE k \in ks : TRUE]).groups
                         # MatchAt(args[1], j, config.patterns[CHOOSE k \in ks : TRUE]).groups
                    /\ ret[1][config.name] =
                          Reading(config.name, config,
                                  MatchAt(args[1], i, config.patterns[CHOOSE k \in ks : TRUE]))

(***************************************************************************)
(* Properties of the date and facility extractors (SpecFn).                *)
(***************************************************************************)
HasDigit(t) == \E i \in 1..Len(t) : IsDigit(t[i])

\* no date pattern has a match in t
NoDateLike(t) == \A k \in 1..Len(DatePatterns) : DateCandidate(t, DatePatterns[k]) = <<>>

Date15March == <<"D", "a", "t", "e", ":", " ", "1", "5", "/", "0", "3", "/", "2", "0", "2", "4">>

\* t holds 'Date: 15/03/2024' and no other digits
HoldsDate15March(t) ==
    \E i \in 1..Len(t) :
        /\ ExactAt(t, i, Date15March)
        /\ ~HasDigit(SubSeq(t, 1, i - 1))
        /\ ~HasDigit(SubSeq(t, i + Len(Date15March), Len(t)))

\* C9: _extract_date on a text containing 'Date: 15/03/2024' returns
\* '2024-03-15', and on a text with no date-like substring it returns the
\* current date formatted YYYY-MM-DD.
C9_DateExtraction ==
    Returned("_extract_date") =>
        /\ HoldsDate15March(args[1]) => ret[1] = <<"2", "0", "2", "4", "-", "0", "3", "-", "1", "5">>
        /\ NoDateLike(args[1]) =>
              /\ ret[1] = Strftime(args[2])
              /\ Len(ret[1]) = 10 /\ ret[1][5] = "-" /\ ret[1][8] = "-"
              /\ \A i \in {1, 2, 3, 4, 6, 7, 9, 10} : IsDigit(ret[1][i])

\* the date of a text that goes on after 'Date: 15/03/2024', read on
\* another day
C9_Witness ==
    /\ Returned("_extract_date")
    /\ HoldsDate15March(args[1])
    /\ Len(args[1]) > Len(Date15March)
    /\ ret[1] # Strftime(args[2])

\* some format of _parse_date parses the candidate
Parses(date_str) ==
    \E k \in 1..Len(DateFormats) : Strptime(Strip(date_str), DateFormats[k]) # <<>>

\* the patterns, by position in the list, whose candidate in t parses
ParsingPatterns(t) ==
    {k \in 1..Len(DatePatterns) :
        /\ DateCandidate(t, DatePatterns[k]) # <<>>
        /\ Parses(DateCandidate(t, DatePatterns[k])[1])}

\* C19: in _extract_date a candidate that no date format parses is skipped:
\* the remaining patterns are still tried, so the result is the date of the
\* first pattern whose candidate parses, and the current date is returned
\* only when no pattern yields a candidate that parses.
C19_UnparseableSkipped ==
    Returned("_extract_date") =>
        LET good == ParsingPatterns(args[1])
            first == CHOOSE k \in good : \A h \in good : k <= h
        IN  IF good = {} THEN ret[1] = Strftime(args[2])
            ELSE ret[1] = ParseDate(DateCandidate(args[1], DatePatterns[first])[1], args[2])

\* d is YYYY-MM-DD for a day of the calendar
IsIsoDate(d) ==
    /\ Len(d) = 10
    /\ Strptime(d, [order |-> "Ymd", sep |-> "-"]) # <<>>

\* t is a date written YYYY-MM-DD, after 'date:' or not, with no other
\* digits before or after it: <<that date>>, or <<>>
IsoDateOf(t) ==
    LET at == {i \in 1..(Len(t) - 9) :
                  /\ IsIsoDate(SubSeq(t, i, i + 9))
                  /\ ~HasDigit(SubSeq(t, 1, i - 1))
                  /\ ~HasDigit(SubSeq(t, i + 10, Len(t)))}
    IN  IF at = {} THEN <<>> ELSE <<SubSeq(t, CHOOSE i \in at : TRUE, (CHOOSE i \in at : TRUE) + 9)>>

\* C20: a document whose date is written in the supported YYYY-MM-DD format
\* (for example '2024-03-15', with or without a 'date:' prefix) yields
\* exactly that same date from date extraction, in the service and in the
\* cloud function.
C20_IsoDateKept ==
    (Returned("_extract_date") \/ Returned("extract_date")) =>
        (IsoDateOf(args[1]) # <<>> => ret[1] = IsoDateOf(args[1])[1])

\* The facility of a text when a candidate is accepted exactly for the
\* trimmed lengths lo..hi: the candidate of the first pattern that has an
\* accepted one, the default when there is none.
FacilityOutcome(t, patterns, lo, hi) ==
    LET accepted == {k \in 1..Len(patterns) :
                        LET g == FacilityGroup(t, patterns[k])
                        IN  g # <<>> /\ Len(Strip(g[1])) \in lo..hi}
        first == CHOOSE k \in accepted : \A j \in accepted : k <= j
    IN  IF accepted = {} THEN MedicalFacility
        ELSE Strip(FacilityGroup(t, patterns[first])[1])

\* C10 (as stated): a candidate is accepted exactly when its trimmed length
\* is between 5 and 100 inclusive, a rejected candidate passes the turn to
\* the next pattern, and the default is returned when none is accepted.
C10_Inclusive ==
    /\ Returned("_extract_facility") =>
          ret[1] = FacilityOutcome(args[1], FacilityPatterns, 5, 100)
    /\ Returned("extract_facility") =>
          ret[1] = FacilityOutcome(args[1], CloudFacilityPatterns, 5, 100)

\* C10 (amended): a candidate is accepted exactly when its trimmed length
\* is strictly between 5 and 100, that is 6 to 99 characters; a rejected
\* candidate passes the turn to the next pattern, and the default facility
\* is returned when no pattern has an accepted candidate.
C10_FacilityLength ==
    /\ Returned("_extract_facility") =>
          ret[1] = FacilityOutcome(args[1], FacilityPatterns, 6, 99)
    /\ Returned("extract_facility") =>
          ret[1] = FacilityOutcome(args[1], CloudFacilityPatterns, 6, 99)

\* the candidate of the first pattern has five characters and is rejected,
\* the candidate of a later pattern is returned
C10_Witness ==
    /\ Returned("_extract_facility")
    /\ LET g == FacilityGroup(args[1], FacilityPatterns[1])
       IN  g # <<>> /\ Len(Strip(g[1])) = 5
    /\ ret[1] # MedicalFacility

(***************************************************************************)
(* Properties of the readings of _extract_biomarker_values (SpecFn).       *)
(***************************************************************************)
\* The reading r of a catalog entry comes from the first parsed occurrence
\* m of one of its patterns, and unit_of(pattern, m) is its unit.
UnitFromMatch(t, config, r, unit_of(_, _)) ==
    \E k \in MatchingPatterns(t, config) :
        LET m == FirstParsed(t, 1, config.name, config.patterns[k])
        IN  /\ IF config.name = "blood_pressure"
               THEN r.systolic = ParseFloat(m.groups[1]) /\ r.diastolic = ParseFloat(m.groups[2])
               ELSE r.value = ParseFloat(m.groups[1])
            /\ r.unit = unit_of(config.patterns[k], m)

\* the unit text a match captured, the catalog's unit when it captured none
CapturedUnit(config, pattern, m) ==
    IF pattern.form = "value_unit" THEN m.groups[2]
    ELSE IF pattern.form = "bp" /\ m.groups[3] # None THEN m.groups[3]
    ELSE config.unit

\* C11 (as stated): for every catalog entry, composite or not, the unit of
\* a reading is the unit text captured by the matching pattern when it
\* captures one, and the catalog's canonical unit only when it captures none.
C11_CapturedUnitAlways ==
    Returned("_extract_biomarker_values") =>
        \A e \in 1..Len(BiomarkerPatterns) :
            LET config == BiomarkerPatterns[e]
                unit_of(pattern, m) == CapturedUnit(config, pattern, m)
            IN  config.name \in DOMAIN ret[1] =>
                    UnitFromMatch(args[1], config, ret[1][config.name], unit_of)

\* C11 (amended): for every entry other than the composite blood_pressure
\* the unit of a reading is the unit text captured by the matching pattern
\* when it captures one and the catalog's canonical unit when it captures
\* none; a blood_pressure reading always carries the canonical unit 'mmHg',
\* whether or not its pattern captured 'mmhg'.
C11_UnitReported ==
    Returned("_extract_biomarker_values") =>
        \A e \in 1..Len(BiomarkerPatterns) :
            LET config == BiomarkerPatterns[e]
                unit_of(pattern, m) == IF config.name = "blood_pressure" THEN config.unit
                                       ELSE CapturedUnit(config, pattern, m)
            IN  config.name \in DOMAIN ret[1] =>
                    UnitFromMatch(args[1], config, ret[1][config.name], unit_of)

\* a hemoglobin reading with the unit as typed, next to a blood pressure
\* whose pattern captured 'mmhg' and whose reading says 'mmHg'
C11_Witness ==
    /\ Returned("_extract_biomarker_values")
    /\ "hemoglobin" \in DOMAIN ret[1]
    /\ ret[1]["hemoglobin"].unit = <<"g", "/", "d", "l">>
    /\ "blood_pressure" \in DOMAIN ret[1]
    /\ \A k \in MatchingPatterns(args[1], BloodPressureEntry) :
          FirstParsed(args[1], 1, "blood_pressure", BloodPressureEntry.patterns[k]).groups[3]
             = <<"m", "m", "h", "g">>
    /\ ret[1]["blood_pressure"].unit = <<"m", "m", "H", "g">>

(***************************************************************************)
(* Properties of the normalizer _clean_text (SpecFn).                      *)
(***************************************************************************)
\* C13: text normalization is idempotent: _clean_text(_clean_text(t)) =
\* _clean_text(t) for every text t.
C13_CleanTextIdempotent ==
    Returned("_clean_text") => CleanText(ret[1]) = ret[1]

\* the words of t: the maximal runs of characters that are not white space
WordStarts(t) == {i \in 1..Len(t) : ~IsSpace(t[i]) /\ (i = 1 \/ IsSpace(t[i - 1]))}

WordFrom(t, i) ==
    LET stops == {j \in i..Len(t) : IsSpace(t[j])}
        stop == IF stops = {} THEN Len(t) + 1 ELSE CHOOSE j \in stops : \A h \in stops : j <= h
    IN  SubSeq(t, i, stop - 1)

SplitWords(t) ==
    LET starts == WordStarts(t)
    IN  [n \in 1..Cardinality(starts) |->
            WordFrom(t, CHOOSE i \in starts : Cardinality({h \in starts : h <= i}) = n)]

UnitForms == <<<<"m", "g", "%">>, <<"g", "m", "%">>, <<"g", "m", "/", "d", "l">>>>

HoldsUnitForm(word) == \E u \in 1..Len(UnitForms) : Contains(word, UnitForms[u])

\* C17: the letter-to-digit substitution is not applied indiscriminately:
\* every input word that contains no digit and is not next to a word with a
\* digit (and is not one of the unit forms that normalization rewrites)
\* appears in the output unchanged apart from lower-casing and white space.
C17_WordsKept ==
    Returned("_clean_text") =>
        LET before == SplitWords(Lower(args[1]))
            after == SplitWords(ret[1])
        IN  /\ Len(after) = Len(before)
            /\ \A n \in 1..Len(before) :
                  (/\ ~HasDigit(before[n]) /\ ~HoldsUnitForm(before[n])
                   /\ (n > 1 => ~HasDigit(before[n - 1]))
                   /\ (n < Len(before) => ~HasDigit(before[n + 1])))
                  => after[n] = before[n]

\* the number of places of t where lit stands
Count(t, lit) == Cardinality({i \in 1..Len(t) : ExactAt(t, i, lit)})

\* C18: _clean_text replaces every 'mg%' by 'mg/dl', every 'gm%' by 'g/dl'
\* and every 'gm/dl' by 'g/dl', case ignored: the output has 'mg/dl' or
\* 'g/dl' at each place where the input had one of the three forms, and
\* none of the three forms is left.
C18_UnitsNormalized ==
    Returned("_clean_text") =>
        LET before == Lower(args[1])
            mg == <<"m", "g", "/", "d", "l">>
            g == <<"g", "/", "d", "l">>
        IN  /\ Count(ret[1], mg) >= Count(before, UnitForms[1])
            /\ Count(ret[1], g) >= Count(before, UnitForms[1]) + Count(before, UnitForms[2])
                                     + Count(before, UnitForms[3])
            /\ \A u \in 1..Len(UnitForms) : Count(ret[1], UnitForms[u]) = 0

CatalogNames == {BiomarkerPatterns[e].name : e \in 1..Len(BiomarkerPatterns)}

CatalogEntry(name) == CHOOSE c \in {BiomarkerPatterns[e] : e \in 1..Len(BiomarkerPatterns)} :
                          c.name = name

\* C15: every reading of the returned mapping has exactly the fields value,
\* unit, range, status, or systolic, diastolic, unit, range, status when its
\* name is blood_pressure; its status is normal, borderline or abnormal; its
\* range is the catalog entry's range label; its name is a key of the catalog.
C15_ReadingShape ==
    Returned("_extract_biomarker_values") =>
        \A name \in DOMAIN ret[1] :
            /\ name \in CatalogNames
            /\ DOMAIN ret[1][name] =
                  IF name = "blood_pressure"
                  THEN {"systolic", "diastolic", "unit", "range", "status"}
                  ELSE {"value", "unit", "range", "status"}
            /\ ret[1][name].status \in {"normal", "borderline", "abnormal"}
            /\ ret[1][name].range = CatalogEntry(name).normal_range

\* a plain reading and a blood-pressure reading in one mapping
C15_Witness ==
    /\ Returned("_extract_biomarker_values")
    /\ {"blood_pressure", "blood_sugar"} \subseteq DOMAIN ret[1]
    /\ ret[1]["blood_pressure"].status = "borderline"
    /\ ret[1]["blood_sugar"].range = "70-100"

(***************************************************************************)
(* Properties of the upload routes (SpecUpload).                           *)
(***************************************************************************)
\* the request that takes the step, when a status or a delete request does
Stepping(r) ==
    /\ invocations'[r] # invocations[r]
    /\ invocations'[r].kind \in {"status", "delete"}

\* what a step of status or delete request r may do, when the statuses in
\* 'missing' answer a record that does not exist and those in 'refused' a
\* record of another user
OwnerStep(r, missing, refused) ==
    LET c == invocations'[r]
        record == GetHealthRecord(c.record_id)
        own == record # <<>> /\ record[1].user_id = c.uid
    IN  /\ (c.pc = "done" /\ c.status = 200) => own
        /\ c.pc = "deleting" => own
        /\ (c.kind = "status" /\ c.status = 200) => c.data = record
        /\ record = <<>> => (c.pc = "done" /\ c.status \in missing)
        /\ (record # <<>> /\ record[1].user_id # c.uid) => (c.pc = "done" /\ c.status \in refused)
        /\ ~own => health_records' = health_records
        /\ health_records' # health_records =>
              /\ c.kind = "delete" /\ c.status = 200
              /\ health_records' = [health_records EXCEPT ![c.record_id].deleted = TRUE]

\* C27 as stated: in every step of a status or delete request, record data
\* are returned and a record is marked deleted only for the record's own
\* user; a request for a record that does not exist ends with 404, a
\* request for another user's record ends with 403, and both leave the
\* stored records unchanged.
C27_OwnRecordsOnly_Stated ==
    [][\A r \in RequestIds : Stepping(r) => OwnerStep(r, {404}, {403})]_vars

\* C27: in every step of a status or delete request, record data are
\* returned and a record is marked deleted only for the record's own user;
\* a request for a record that does not exist ends with 404, a request for
\* another user's record ends with 403, either ends with 500 when the read
\* of the record fails, and all of them leave the stored records unchanged.
C27_OwnRecordsOnly ==
    [][\A r \in RequestIds : Stepping(r) => OwnerStep(r, {404, 500}, {403, 500})]_vars

\* a user was refused the deletion of a record that its owner then deleted
C27_Witness ==
    \E r1, r2 \in RequestIds :
        /\ invocations[r1].kind = "delete" /\ invocations[r1].status = 403
        /\ invocations[r2].kind = "delete" /\ invocations[r2].status = 200
        /\ invocations[r1].record_id = invocations[r2].record_id
        /\ health_records[invocations[r2].record_id].deleted
        /\ health_records[invocations[r2].record_id].user_id = invocations[r2].uid

\* C28: whenever upload_document has finished, with a response or with an
\* HTTP error, the temporary file it created no longer exists.
C28_TempFileRemoved ==
    \A r \in RequestIds :
        (invocations[r].kind = "upload" /\ invocations[r].pc = "done") => r \notin uploads

(***************************************************************************)
(* Properties of process_document (SpecCloud).                             *)
(***************************************************************************)
\* the segments of an object name between its '/' characters, counted in
\* the name itself
Segments(name) ==
    LET cuts == <<0>> \o SelectSeq([i \in 1..Len(name) |-> IF name[i] = "/" THEN i ELSE 0],
                                   LAMBDA i : i # 0) \o <<Len(name) + 1>>
    IN  [k \in 1..(Len(cuts) - 1) |-> SubSeq(name, cuts[k] + 1, cuts[k + 1] - 1)]

\* C29: no step of process_document raises; a step writes at most one
\* record, and writes it only for an event that has written none, whose
\* object name starts with 'documents/' and has at least three segments,
\* whose blob exists and whose OCR text is not empty, with the second
\* segment as the record's user_id; every other step, a caught exception
\* included, leaves the records unchanged, so that there are as many
\* records as events that returned success.
C29_OneRecordPerEvent ==
    [][\A r \in RequestIds : invocations'[r] # invocations[r] =>
          LET e == invocations'[r]
          IN  /\ e.result \in {"", "none", "success", "failure"}
              /\ Len(health_records') = Cardinality({s \in RequestIds : invocations'[s].result = "success"})
              /\ \/ health_records' = health_records /\ e.result # "success"
                 \/ /\ invocations[r].result = "" /\ e.result = "success"
                    /\ SubSeq(e.data[1], 1, 10) = <<"d", "o", "c", "u", "m", "e", "n", "t", "s", "/">>
                    /\ Len(Segments(e.data[1])) >= 3
                    /\ e.blob = "exists" /\ e.text # ""
                    /\ health_records' = Append(health_records,
                           [user_id |-> Segments(e.data[1])[2], document_url |-> e.data[1]])]_vars

\* an event for an object four segments deep wrote a record for the user
\* of the second segment, and an event with a caught exception wrote none
C29_Witness ==
    /\ Len(health_records) = 1
    /\ health_records[1] = [user_id |-> <<"u", "2">>, document_url |-> <<"d", "o", "c", "u", "m", "e", "n", "t", "s", "/", "u", "2", "/", "x", "/", "y", ".", "p", "n", "g">>]
    /\ \E r \in RequestIds : invocations[r].result = "failure" /\ invocations[r].pc = "done"
    /\ \E r \in RequestIds : invocations[r].result = "success"

(***************************************************************************)
(* Properties of the user routes (SpecUsers).                              *)
(***************************************************************************)
\* C30: after any sequence of register, login and profile-update requests,
\* every stored profile has profile_completed set exactly when its stored
\* name and its stored phone are both non-empty.
C30_ProfileCompleted ==
    \A uid \in DOMAIN users :
        users[uid].profile_completed <=> (users[uid].name # <<>> /\ users[uid].phone # <<>>)

====
